---------------------------- MODULE Spec2Model ----------------------------
(***************************************************************************)
(* SafeHer: SOS triggering, location tracking and notification fan-out.    *)
(*                                                                         *)
(* The store (server/db.ts over the MySQL schema of drizzle/0001_*.sql),   *)
(* the tRPC procedures of server/routers.ts (device, contacts, sos,         *)
(* offline), the tracking service (updateLocation and the registry of      *)
(* tracking sessions) and the notification service (sendEmergencyAlert,    *)
(* sendSmsAlert, sendEmailAlert, notifyAllContacts).                       *)
(*                                                                         *)
(* Coordinates: a JavaScript number is written as a count of 10^-9 degree, *)
(* a decimal(p,8) column value as a count of 10^-8 degree.                 *)
(***************************************************************************)
EXTENDS Integers, Sequences, FiniteSets, TLC

(***************************************************************************)
(* Bounds of the model.                                                    *)
(***************************************************************************)
MaxTime == 2
MaxEvents == 2
MaxLocations == 3
MaxFaults == 2
MaxContacts == 3
MaxQueue == 2
MaxDrift == 1
MaxRequests == 2
MaxPasses == 2

(***************************************************************************)
(* Program constants.                                                      *)
(***************************************************************************)
DecimalScale == 8

Null == << >>
Some(v) == << v >>
IsNull(x) == x = << >>

Abs(x) == IF x < 0 THEN -x ELSE x

DeviceIds == {"d1", "d2"}
TriggerTypes == {"manual", "voice", "offline"}
EventStatuses == {"active", "resolved", "cancelled", "expired"}

Phone == "8888888888"
Email == "c@example.org"

\* the digits a JavaScript number carries after the decimal point, here
InputUnit == 10 ^ 9

\* blockedUntil values a rate-limit record is given
BlockedUntilInputs == {Null, Some(1)}
\* the callers of notifyAllContacts: a first call and a second one, made
\* while the first is in flight or after it
PassIds == {1, 2}
\* event ids a caller may name: the created ones and one that was never created
EventIdInputs == 1 .. (MaxEvents + 1)

VARIABLES
  dbAvailable,      \* getDb() returns a handle (DATABASE_URL is set)
  now,              \* the clock read by new Date()
  devices,          \* table devices, keyed by deviceId
  sosRateLimit,     \* table sosRateLimit, keyed by deviceId
  sosEvents,        \* table sosEvents, in insertion order; eventId = index
  locationHistory,  \* table locationHistory, in insertion order
  ul,               \* the updateLocation call in flight
  lastOp,           \* the last call that returned: its input and outcome
  contacts,         \* table emergencyContacts, a set of rows with unique id
  notifications,    \* table notifications, a set of rows
  nanoidCtr,        \* nanoid() calls made by the notification service
  faults,           \* store calls of the notification service that threw
  pass,             \* the notifyAllContacts call of each caller
  contactSeq,       \* AUTO_INCREMENT of emergencyContacts.id: ids given so far
  offlineSosQueue,  \* table offlineSosQueue, in insertion order; queueId = index
  activeSessions,   \* the Map of the tracking service, keyed by eventId
  localStorage,     \* the browser's item "safeher_offline_queue"
  sync,             \* the syncPendingRequests pass of each caller
  syncCalls,        \* the calls of syncFn made so far, in order
  reg               \* the device.register call of each caller

sosVars == << dbAvailable, now, devices, sosRateLimit, sosEvents,
              locationHistory, ul, lastOp >>
notifyVars == << contacts, notifications, nanoidCtr, faults, pass >>
storeVars == << contactSeq, offlineSosQueue, activeSessions >>
clientVars == << localStorage, sync, syncCalls >>
vars == << dbAvailable, now, devices, sosRateLimit, sosEvents,
           locationHistory, ul, lastOp, contacts, notifications, nanoidCtr,
           faults, pass, contactSeq, offlineSosQueue, activeSessions,
           localStorage, sync, syncCalls, reg >>

(***************************************************************************)
(* number.toString() and the decimal(10,8) / decimal(11,8) columns.        *)
(***************************************************************************)
\* latitude.toString(): sign, integer digits, fractional digits
NumberToString(x) ==
  [neg |-> x < 0, int |-> Abs(x) \div InputUnit, frac |-> Abs(x) % InputUnit]

\* MySQL stores a decimal string in a decimal(p,8) column rounded half away
\* from zero to 8 fractional digits
ToDecimal(s) ==
  LET cut == 10 ^ (9 - DecimalScale)
      mag == s.int * (10 ^ DecimalScale) + ((s.frac + (cut \div 2)) \div cut)
  IN IF s.neg THEN -mag ELSE mag

\* the number a decimal column value denotes, in 10^-9 degree
DecimalAsInput(v) == v * (10 ^ (9 - DecimalScale))

(***************************************************************************)
(* server/db.ts                                                            *)
(***************************************************************************)
NoRow == << >>

getDeviceByDeviceId(deviceId) ==
  IF ~dbAvailable THEN NoRow ELSE devices[deviceId]

getSosRateLimit(deviceId) ==
  IF ~dbAvailable THEN NoRow ELSE sosRateLimit[deviceId]

getSosEventByEventId(eventId) ==
  IF ~dbAvailable \/ eventId \notin DOMAIN sosEvents
  THEN NoRow ELSE << sosEvents[eventId] >>

\* the devices table after updateDevice(deviceId, {lastLocation...})
updateDevice(deviceId, lat, lng, ts) ==
  IF ~dbAvailable \/ devices[deviceId] = NoRow
  THEN devices
  ELSE [devices EXCEPT ![deviceId] =
          << [@[1] EXCEPT !.lastLocationLat = Some(ToDecimal(NumberToString(lat))),
                          !.lastLocationLng = Some(ToDecimal(NumberToString(lng))),
                          !.lastLocationTimestamp = Some(ts)] >>]

\* the row createSosEvent inserts (notificationsSent and resolvedAt by default)
NewSosEvent(eventId, deviceId, triggerType, lat, lng, ts) ==
  [eventId |-> eventId, deviceId |-> deviceId, status |-> "active",
   triggerType |-> triggerType,
   initialLat |-> ToDecimal(NumberToString(lat)),
   initialLng |-> ToDecimal(NumberToString(lng)),
   notificationsSent |-> 0,
   trackingStartedAt |-> Some(ts), resolvedAt |-> Null]

NewLocation_swapped(eventId, deviceId, lat, lng) ==
  [eventId |-> eventId, deviceId |-> deviceId,
   latitude |-> ToDecimal(NumberToString(lng)),
   longitude |-> ToDecimal(NumberToString(lat))]

\* the row addLocationHistory inserts
NewLocation(eventId, deviceId, lat, lng) ==
  [eventId |-> eventId, deviceId |-> deviceId,
   latitude |-> ToDecimal(NumberToString(lat)),
   longitude |-> ToDecimal(NumberToString(lng))]

addLocationHistory_twice(eventId, deviceId, lat, lng) ==
  IF ~dbAvailable THEN locationHistory
  ELSE Append(Append(locationHistory, NewLocation(eventId, deviceId, lat, lng)),
              NewLocation(eventId, deviceId, lat, lng))

addLocationHistory(eventId, deviceId, lat, lng) ==
  IF ~dbAvailable THEN locationHistory
  ELSE Append(locationHistory, NewLocation(eventId, deviceId, lat, lng))

(***************************************************************************)
(* Init                                                                    *)
(***************************************************************************)
IdleUl == [pc |-> "idle", eventId |-> 0, deviceId |-> "d1",
           latitude |-> 0, longitude |-> 0]
NoOp == [seq |-> 0, op |-> "none", error |-> "", deviceId |-> "",
         eventId |-> 0, latitude |-> 0, longitude |-> 0,
         triggerType |-> "", input |-> Null, ret |-> Null]

IdlePass == [pc |-> "idle", eventId |-> 0, deviceId |-> "", contacts |-> << >>,
             i |-> 0, results |-> << >>, log |-> << >>, nid |-> 0,
             resp |-> FALSE, smsThrew |-> FALSE, smsRow |-> FALSE,
             emailFault |-> FALSE, provider |-> FALSE,
             statusAtStart |-> ""]

IdleSync == [pc |-> "idle", pending |-> << >>, i |-> 0, call |-> 0,
             synced |-> 0, failed |-> 0, runs |-> 0, ret |-> Null]

IdleReg == [pc |-> "idle", deviceId |-> "", name |-> "", phone |-> "",
            email |-> Null, existing |-> NoRow, error |-> "", ret |-> Null]

\* an empty localStorage, no pass and no register call in flight
ClientInit ==
  /\ localStorage = Null
  /\ sync = [p \in PassIds |-> IdleSync]
  /\ syncCalls = << >>
  /\ reg = [c \in PassIds |-> IdleReg]

\* no contact, no queued request, no tracking session
StoreInit ==
  /\ contactSeq = 0
  /\ offlineSosQueue = << >>
  /\ activeSessions = [e \in EventIdInputs |-> NoRow]
  /\ ClientInit

SosInit ==
  /\ contacts = {}
  /\ notifications = {}
  /\ nanoidCtr = 0
  /\ faults = 0
  /\ pass = [p \in PassIds |-> IdlePass]
  /\ StoreInit
  /\ dbAvailable \in BOOLEAN
  /\ now = 0
  /\ devices = [d \in DeviceIds |-> NoRow]
  /\ sosRateLimit = [d \in DeviceIds |-> NoRow]
  /\ sosEvents = << >>
  /\ locationHistory = << >>
  /\ ul = IdleUl
  /\ lastOp = NoOp

\* the call op(input) returns ret, or fails with error
ReturnedOf(op, error, input, ret) ==
  lastOp' = [NoOp EXCEPT !.seq = 1 - lastOp.seq, !.op = op, !.error = error,
                         !.input = input, !.ret = ret]

Returned(op, error, deviceId, eventId, lat, lng, triggerType, ret) ==
  lastOp' = [seq |-> 1 - lastOp.seq, op |-> op, error |-> error,
             deviceId |-> deviceId, eventId |-> eventId,
             latitude |-> lat, longitude |-> lng,
             triggerType |-> triggerType, input |-> Null, ret |-> ret]

(***************************************************************************)
(* Actions                                                                 *)
(***************************************************************************)
Tick ==
  /\ now < MaxTime
  /\ now' = now + 1
  /\ UNCHANGED << clientVars, reg, dbAvailable, devices, sosRateLimit, sosEvents,
                  locationHistory, ul, lastOp,
                  notifyVars, storeVars >>

\* the row db.createDevice inserts (the location columns by default)
NewDevice(deviceId, name, phone, email) ==
  [deviceId |-> deviceId, name |-> name, phone |-> phone, email |-> email,
   lastLocationLat |-> Null, lastLocationLng |-> Null,
   lastLocationTimestamp |-> Null]

\* db.createDevice: the insert fails on a deviceId already there
\* (devices_deviceId_unique)
createDevice(row) ==
  IF devices[row.deviceId] # NoRow
  THEN devices
  ELSE [devices EXCEPT ![row.deviceId] = << row >>]

register_upsert(deviceId, name, phone, email) ==
  /\ dbAvailable
  /\ devices' = [devices EXCEPT ![deviceId] =
        IF @ = NoRow THEN << NewDevice(deviceId, name, phone, email) >>
        ELSE << [@[1] EXCEPT !.name = name, !.phone = phone, !.email = email] >>]
  /\ ReturnedOf("register", "", [deviceId |-> deviceId, name |-> name,
                                 phone |-> phone, email |-> email],
                devices'[deviceId])
  /\ UNCHANGED << clientVars, reg, dbAvailable, now, sosRateLimit, sosEvents,
                  locationHistory, ul,
                  notifyVars, storeVars >>

\* device.register
register(deviceId, name, phone, email) ==
  LET existing == getDeviceByDeviceId(deviceId)
      input == [deviceId |-> deviceId, name |-> name, phone |-> phone,
                email |-> email]
  IN
  IF existing # NoRow
  THEN /\ ReturnedOf("register", "", input, existing)
       /\ UNCHANGED << clientVars, reg, dbAvailable, now, devices, sosRateLimit, sosEvents,
                       locationHistory, ul,
                       notifyVars, storeVars >>
  ELSE IF ~dbAvailable
  THEN /\ ReturnedOf("register", "INTERNAL_SERVER_ERROR", input, Null)
       /\ UNCHANGED << clientVars, reg, dbAvailable, now, devices, sosRateLimit, sosEvents,
                       locationHistory, ul,
                       notifyVars, storeVars >>
  ELSE /\ devices' = createDevice(NewDevice(deviceId, name, phone, email))
       /\ ReturnedOf("register", "", input, devices'[deviceId])
       /\ UNCHANGED << clientVars, reg, dbAvailable, now, sosRateLimit, sosEvents,
                       locationHistory, ul,
                       notifyVars, storeVars >>

\* db.createOrUpdateSosRateLimit(deviceId, {isBlocked, blockedUntil})
createOrUpdateSosRateLimit(deviceId, isBlocked, blockedUntil) ==
  /\ dbAvailable
  /\ sosRateLimit' = [sosRateLimit EXCEPT ![deviceId] =
        << [isBlocked |-> isBlocked, blockedUntil |-> blockedUntil] >>]
  /\ sosRateLimit' # sosRateLimit
  /\ UNCHANGED << clientVars, reg, dbAvailable, now, devices, sosEvents, locationHistory,
                  ul, lastOp,
                  notifyVars, storeVars >>

\* routers.ts 136: rateLimit && isBlocked && blockedUntil && blockedUntil > now
IsRateLimited_inclusive(rateLimit, t) ==
  /\ rateLimit # NoRow
  /\ rateLimit[1].isBlocked
  /\ ~IsNull(rateLimit[1].blockedUntil)
  /\ rateLimit[1].blockedUntil[1] >= t

IsRateLimited_reversed(rateLimit, t) ==
  /\ rateLimit # NoRow
  /\ rateLimit[1].isBlocked
  /\ ~IsNull(rateLimit[1].blockedUntil)
  /\ rateLimit[1].blockedUntil[1] < t

IsRateLimited(rateLimit, t) ==
  /\ rateLimit # NoRow
  /\ rateLimit[1].isBlocked
  /\ ~IsNull(rateLimit[1].blockedUntil)
  /\ rateLimit[1].blockedUntil[1] > t

trigger_counting(deviceId, lat, lng, triggerType) ==
  LET rateLimit == getSosRateLimit(deviceId)
      eventId == Len(sosEvents) + 1
  IN
  IF IsRateLimited(rateLimit, now)
  THEN /\ Returned("trigger", "TOO_MANY_REQUESTS", deviceId, 0, lat, lng, triggerType, Null)
       /\ UNCHANGED << clientVars, reg, dbAvailable, now, devices, sosRateLimit, sosEvents,
                       locationHistory, ul,
                       notifyVars, storeVars >>
  ELSE IF ~dbAvailable
  THEN /\ Returned("trigger", "INTERNAL_SERVER_ERROR", deviceId, 0, lat, lng, triggerType, Null)
       /\ UNCHANGED << clientVars, reg, dbAvailable, now, devices, sosRateLimit, sosEvents,
                       locationHistory, ul,
                       notifyVars, storeVars >>
  ELSE /\ Len(sosEvents) < MaxEvents
       /\ Len(locationHistory) < MaxLocations
       /\ sosEvents' = Append(sosEvents,
             NewSosEvent(eventId, deviceId, triggerType, lat, lng, now))
       /\ locationHistory' = addLocationHistory(eventId, deviceId, lat, lng)
       /\ devices' = updateDevice(deviceId, lat, lng, now)
       /\ sosRateLimit' = [sosRateLimit EXCEPT ![deviceId] =
             << [isBlocked |-> TRUE, blockedUntil |-> Some(now + 1)] >>]
       /\ Returned("trigger", "", deviceId, eventId, lat, lng, triggerType,
                   << sosEvents'[eventId] >>)
       /\ UNCHANGED << clientVars, reg, dbAvailable, now, ul,
                       notifyVars, storeVars >>

\* sos.trigger
trigger(deviceId, lat, lng, triggerType) ==
  LET rateLimit == getSosRateLimit(deviceId)
      eventId == Len(sosEvents) + 1
  IN
  IF IsRateLimited(rateLimit, now)
  THEN /\ Returned("trigger", "TOO_MANY_REQUESTS", deviceId, 0, lat, lng, triggerType, Null)
       /\ UNCHANGED << clientVars, reg, dbAvailable, now, devices, sosRateLimit, sosEvents,
                       locationHistory, ul,
                  notifyVars, storeVars >>
  ELSE IF ~dbAvailable
  THEN /\ Returned("trigger", "INTERNAL_SERVER_ERROR", deviceId, 0, lat, lng, triggerType, Null)
       /\ UNCHANGED << clientVars, reg, dbAvailable, now, devices, sosRateLimit, sosEvents,
                       locationHistory, ul,
                  notifyVars, storeVars >>
  ELSE /\ Len(sosEvents) < MaxEvents
       /\ Len(locationHistory) < MaxLocations
       /\ sosEvents' = Append(sosEvents,
             NewSosEvent(eventId, deviceId, triggerType, lat, lng, now))
       /\ locationHistory' = addLocationHistory(eventId, deviceId, lat, lng)
       /\ devices' = updateDevice(deviceId, lat, lng, now)
       /\ Returned("trigger", "", deviceId, eventId, lat, lng, triggerType,
                   << sosEvents'[eventId] >>)
       /\ UNCHANGED << clientVars, reg, dbAvailable, now, sosRateLimit, ul,
                  notifyVars, storeVars >>

updateSosEvent_resolve_toggle(eventId, ts) ==
  IF ~dbAvailable \/ eventId \notin DOMAIN sosEvents
  THEN sosEvents
  ELSE IF sosEvents[eventId].status = "resolved"
  THEN [sosEvents EXCEPT ![eventId].status = "active",
                         ![eventId].resolvedAt = Null]
  ELSE [sosEvents EXCEPT ![eventId].status = "resolved",
                         ![eventId].resolvedAt = Some(ts)]

updateSosEvent_resolve_statusOnly(eventId, ts) ==
  IF ~dbAvailable \/ eventId \notin DOMAIN sosEvents
  THEN sosEvents
  ELSE [sosEvents EXCEPT ![eventId].status = "resolved"]

\* db.updateSosEvent(eventId, {status: "resolved", resolvedAt: new Date()})
updateSosEvent_resolve(eventId, ts) ==
  IF ~dbAvailable \/ eventId \notin DOMAIN sosEvents
  THEN sosEvents
  ELSE [sosEvents EXCEPT ![eventId].status = "resolved",
                         ![eventId].resolvedAt = Some(ts)]

\* sos.resolve
resolve(eventId) ==
  /\ sosEvents' = updateSosEvent_resolve(eventId, now)
  /\ LET sosEvent == IF ~dbAvailable \/ eventId \notin DOMAIN sosEvents'
                     THEN NoRow ELSE << sosEvents'[eventId] >>
     IN IF sosEvent = NoRow
        THEN Returned("resolve", "NOT_FOUND", "", eventId, 0, 0, "", Null)
        ELSE Returned("resolve", "", "", eventId, 0, 0, "", sosEvent)
  /\ UNCHANGED << clientVars, reg, dbAvailable, now, devices, sosRateLimit, locationHistory, ul,
                  notifyVars, storeVars >>

IsTrackable_anyStatus(sosEvent) == sosEvent # NoRow

\* updateLocation, line 96: !sosEvent || sosEvent.status !== "active"
IsTrackable(sosEvent) == sosEvent # NoRow /\ sosEvent[1].status = "active"

\* updateLocation, lines 95-98: read the event, return null unless active
updateLocation_check(eventId, deviceId, lat, lng) ==
  /\ ul.pc = "idle"
  /\ LET sosEvent == getSosEventByEventId(eventId) IN
     IF ~IsTrackable(sosEvent)
     THEN /\ Returned("updateLocation", "", deviceId, eventId, lat, lng, "", Null)
          /\ UNCHANGED ul
     ELSE /\ ul' = [pc |-> "add", eventId |-> eventId, deviceId |-> deviceId,
                    latitude |-> lat, longitude |-> lng]
          /\ UNCHANGED lastOp
  /\ UNCHANGED << clientVars, reg, dbAvailable, now, devices, sosRateLimit, sosEvents,
                  locationHistory,
                  notifyVars, storeVars >>

\* updateLocation, lines 101-109: append the point
updateLocation_add ==
  /\ ul.pc = "add"
  /\ Len(locationHistory) < MaxLocations
  /\ locationHistory' = addLocationHistory(ul.eventId, ul.deviceId,
                                           ul.latitude, ul.longitude)
  /\ ul' = [ul EXCEPT !.pc = "device"]
  /\ UNCHANGED << clientVars, reg, dbAvailable, now, devices, sosRateLimit, sosEvents, lastOp,
                  notifyVars, storeVars >>

\* updateLocation, lines 112-124: refresh the device, return the point
updateLocation_device ==
  /\ ul.pc = "device"
  /\ devices' = updateDevice(ul.deviceId, ul.latitude, ul.longitude, now)
  /\ Returned("updateLocation", "", ul.deviceId, ul.eventId, ul.latitude,
              ul.longitude, "",
              << [eventId |-> ul.eventId, latitude |-> ul.latitude,
                  longitude |-> ul.longitude] >>)
  /\ ul' = IdleUl
  /\ UNCHANGED << clientVars, reg, dbAvailable, now, sosRateLimit, sosEvents, locationHistory,
                  notifyVars, storeVars >>

\* (latitude, longitude, triggerType) of the trigger calls, in 10^-9 degree:
\* (1.29716, 0.775946) and (1.297160005, -0.000000015)
TriggerInputs ==
  { << 1297160000, 775946000, "manual" >>,
    << 1297160005, -15, "offline" >>,
    << 1297160000, 775946000, "voice" >> }

\* rate limiting and triggering: d1 registers and is given a rate-limit
\* record, d2 triggers without ever registering
TriggerNext ==
  \/ Tick
  \/ register("d1", "Asha", Phone, Null)
  \/ \E b \in BOOLEAN, u \in BlockedUntilInputs :
        createOrUpdateSosRateLimit("d1", b, u)
  \/ \E d \in DeviceIds, i \in TriggerInputs : trigger(d, i[1], i[2], i[3])

SpecTrigger == SosInit /\ [][TriggerNext]_vars

\* the life of an event: trigger, location updates, resolve
TrackNext ==
  \/ \E d \in DeviceIds : register(d, "Asha", Phone, Null)
  \/ \E d \in DeviceIds : trigger(d, 1297160000, 775946000, "manual")
  \/ \E e \in EventIdInputs : resolve(e)
  \/ \E e \in EventIdInputs, d \in DeviceIds :
        updateLocation_check(e, d, 1297160005, -15)
  \/ updateLocation_add
  \/ updateLocation_device

SpecTrack == SosInit /\ [][TrackNext]_vars

\* (name, phone, email) of the register calls
DeviceProfiles ==
  { << "Asha", Phone, Null >>, << "Bina", "9999999999", Some(Email) >> }

\* registering: devices register, again and under another name, and trigger
RegisterNext ==
  \/ Tick
  \/ \E d \in DeviceIds, f \in DeviceProfiles : register(d, f[1], f[2], f[3])
  \/ \E d \in DeviceIds : trigger(d, 1297160005, -15, "manual")

SpecRegister == SosInit /\ [][RegisterNext]_vars

(***************************************************************************)
(* Properties of triggering, resolving and location updates.               *)
(***************************************************************************)
\* a call of the named procedure returns in this step
Returns(op) == lastOp'.seq # lastOp.seq /\ lastOp'.op = op

\* the device's rate-limit record says blocked, until a time still to come
BlockedNow(deviceId) ==
  /\ sosRateLimit[deviceId] # NoRow
  /\ sosRateLimit[deviceId][1].isBlocked
  /\ sosRateLimit[deviceId][1].blockedUntil # Null
  /\ sosRateLimit[deviceId][1].blockedUntil[1] > now

\* C1: sos.trigger for a device whose rate-limit record has isBlocked = true
\* and blockedUntil later than now fails with TOO_MANY_REQUESTS, creates no
\* SosEvent row and no LocationHistory row, and leaves the device untouched.
C1_BlockedTriggerRejected ==
  [][ (Returns("trigger") /\ BlockedNow(lastOp'.deviceId))
        => /\ lastOp'.error = "TOO_MANY_REQUESTS"
           /\ lastOp'.ret = Null
           /\ sosEvents' = sosEvents
           /\ locationHistory' = locationHistory
           /\ devices' = devices ]_vars

\* a blocked trigger was rejected while an earlier event of that device exists
C1_Witness ==
  /\ lastOp.op = "trigger"
  /\ lastOp.error = "TOO_MANY_REQUESTS"
  /\ BlockedNow(lastOp.deviceId)
  /\ \E e \in DOMAIN sosEvents : sosEvents[e].deviceId = lastOp.deviceId
  /\ devices[lastOp.deviceId] # NoRow

\* a decimal column value v is the input number x rounded to 8 fractional digits
IsRounded8(v, x) == 2 * Abs(DecimalAsInput(v) - x) <= 10 ^ (9 - DecimalScale)

\* the rows a returning trigger added: one event, one location, for the input
TriggerAddedOneEach(SameCoordinate(_, _)) ==
  LET e == Len(sosEvents) + 1
      h == Len(locationHistory) + 1
  IN /\ Len(sosEvents') = e
     /\ SubSeq(sosEvents', 1, e - 1) = sosEvents
     /\ lastOp'.ret = << sosEvents'[e] >>
     /\ sosEvents'[e].status = "active"
     /\ sosEvents'[e].deviceId = lastOp'.deviceId
     /\ sosEvents'[e].triggerType = lastOp'.triggerType
     /\ SameCoordinate(sosEvents'[e].initialLat, lastOp'.latitude)
     /\ SameCoordinate(sosEvents'[e].initialLng, lastOp'.longitude)
     /\ Len(locationHistory') = h
     /\ SubSeq(locationHistory', 1, h - 1) = locationHistory
     /\ locationHistory'[h].eventId = sosEvents'[e].eventId
     /\ SameCoordinate(locationHistory'[h].latitude, lastOp'.latitude)
     /\ SameCoordinate(locationHistory'[h].longitude, lastOp'.longitude)

EqualsInput(v, x) == DecimalAsInput(v) = x

\* C2 as stated: a trigger that succeeds adds exactly one SosEvent (active,
\* the input coordinates and trigger type) and exactly one LocationHistory
\* row of that event whose coordinates equal the input, and no other row.
C2_Original ==
  [][ (Returns("trigger") /\ lastOp'.error = "")
        => TriggerAddedOneEach(EqualsInput) ]_vars

\* C2 amended: the same, with the stored coordinates being the input
\* rounded to the 8 fractional digits of the decimal(10,8) / decimal(11,8)
\* columns.
C2_TriggerAddsOneEventOneLocation ==
  [][ (Returns("trigger") /\ lastOp'.error = "")
        => TriggerAddedOneEach(IsRounded8) ]_vars

\* a second trigger succeeded, with coordinates that do not fit 8 digits
C2_Witness ==
  /\ lastOp.op = "trigger"
  /\ lastOp.error = ""
  /\ lastOp.eventId = 2
  /\ sosEvents[2].triggerType = "offline"
  /\ ~EqualsInput(sosEvents[2].initialLat, lastOp.latitude)
  /\ Len(locationHistory) = 2

\* C12: device.register on a deviceId that has a row returns that row and
\* changes nothing, whatever name, phone and email the call carries; there
\* is never more than one Device row of a deviceId.
C12_RegisterExisting ==
  [][ /\ (Returns("register") /\ devices[lastOp'.input.deviceId] # NoRow)
            => /\ lastOp'.error = ""
               /\ lastOp'.ret = devices[lastOp'.input.deviceId]
               /\ devices' = devices
               /\ sosEvents' = sosEvents
               /\ locationHistory' = locationHistory
               /\ sosRateLimit' = sosRateLimit
      /\ \A d \in DeviceIds : Len(devices'[d]) <= 1 ]_vars

\* a device registered as Asha and with a last-known location registered
\* again as Bina and was returned the row of Asha
C12_Witness ==
  /\ lastOp.op = "register"
  /\ lastOp.error = ""
  /\ lastOp.input.name = "Bina"
  /\ lastOp.input.email # Null
  /\ lastOp.ret = devices[lastOp.input.deviceId]
  /\ lastOp.ret[1].name = "Asha"
  /\ lastOp.ret[1].email = Null
  /\ lastOp.ret[1].lastLocationLat # Null

\* C14: sos.trigger is not rejected with TOO_MANY_REQUESTS, and succeeds
\* when the store is there, whenever the device has no rate-limit record, or
\* isBlocked is false, or blockedUntil is unset, or blockedUntil is not later
\* than the current time, isBlocked being still true or not.
C14_UnblockedTriggerAllowed ==
  [][ (Returns("trigger") /\ ~BlockedNow(lastOp'.deviceId))
        => /\ lastOp'.error # "TOO_MANY_REQUESTS"
           /\ dbAvailable => /\ lastOp'.error = ""
                              /\ Len(sosEvents') = Len(sosEvents) + 1 ]_vars

\* a trigger succeeded at the very time its device's block ran out, the
\* record still saying isBlocked
C14_Witness ==
  /\ lastOp.op = "trigger"
  /\ lastOp.error = ""
  /\ sosRateLimit[lastOp.deviceId] # NoRow
  /\ sosRateLimit[lastOp.deviceId][1].isBlocked
  /\ sosRateLimit[lastOp.deviceId][1].blockedUntil = Some(now)
  /\ sosEvents[lastOp.eventId].trackingStartedAt = Some(now)

\* the device row but for its last-known location
WithoutLastLocation(device) ==
  IF device = NoRow THEN NoRow
  ELSE << [device[1] EXCEPT !.lastLocationLat = Null, !.lastLocationLng = Null,
                            !.lastLocationTimestamp = Null] >>

\* C16: sos.trigger changes only sosEvents, locationHistory and the
\* last-known-location fields of its device: no Notification row, the new
\* event's notificationsSent 0, earlier events as they were, no rate-limit
\* record created or modified; so a trigger of a device that is not blocked
\* succeeds however many triggers went before.
C16_TriggerFrame ==
  [][ Returns("trigger") =>
        LET d == lastOp'.deviceId IN
        /\ sosRateLimit' = sosRateLimit
        /\ notifications' = notifications
        /\ contacts' = contacts
        /\ offlineSosQueue' = offlineSosQueue
        /\ activeSessions' = activeSessions
        /\ \A o \in DeviceIds : o # d => devices'[o] = devices[o]
        /\ WithoutLastLocation(devices'[d]) = WithoutLastLocation(devices[d])
        /\ SubSeq(sosEvents', 1, Len(sosEvents)) = sosEvents
        /\ lastOp'.error = ""
              => /\ lastOp'.ret[1].notificationsSent = 0
                 /\ sosEvents'[Len(sosEvents')].notificationsSent = 0
        /\ (dbAvailable /\ ~BlockedNow(d)) => lastOp'.error = "" ]_vars

\* a registered device with no rate-limit record triggered twice in a row
\* and both triggers succeeded
C16_Witness ==
  /\ lastOp.op = "trigger"
  /\ lastOp.error = ""
  /\ lastOp.eventId = 2
  /\ sosEvents[1].deviceId = lastOp.deviceId
  /\ sosEvents[2].deviceId = lastOp.deviceId
  /\ sosRateLimit[lastOp.deviceId] = NoRow
  /\ devices[lastOp.deviceId] # NoRow
  /\ devices[lastOp.deviceId][1].lastLocationLat # Null
  /\ notifications = {}

\* C9: sos.resolve on an eventId without a row fails with NOT_FOUND and
\* changes nothing; on an active event it sets status resolved and a
\* non-null resolvedAt and returns the updated event.
C9_Resolve ==
  [][ Returns("resolve") =>
        LET e == lastOp'.eventId IN
        /\ (e \notin DOMAIN sosEvents)
              => /\ lastOp'.error = "NOT_FOUND"
                 /\ sosEvents' = sosEvents
                 /\ locationHistory' = locationHistory
                 /\ devices' = devices
        /\ (e \in DOMAIN sosEvents /\ sosEvents[e].status = "active")
              => /\ lastOp'.error = ""
                 /\ sosEvents'[e].status = "resolved"
                 /\ sosEvents'[e].resolvedAt # Null
                 /\ lastOp'.ret = << sosEvents'[e] >>
                 /\ \A o \in DOMAIN sosEvents : o # e => sosEvents'[o] = sosEvents[o]
                 /\ Len(sosEvents') = Len(sosEvents) ]_vars

\* one event was resolved and a later resolve of an unknown id was refused
C9_Witness ==
  /\ lastOp.op = "resolve"
  /\ lastOp.error = "NOT_FOUND"
  /\ lastOp.eventId \notin DOMAIN sosEvents
  /\ \E e \in DOMAIN sosEvents :
        sosEvents[e].status = "resolved" /\ sosEvents[e].resolvedAt # Null

\* the event is missing or not active
NotActive(eventId) ==
  eventId \notin DOMAIN sosEvents \/ sosEvents[eventId].status # "active"

\* C10: updateLocation on an event that does not exist or is not active
\* returns null, appends no LocationHistory row and leaves the device's
\* last-known location unchanged: such a call returns at once and never
\* goes on to the append.
C10_UpdateLocationInactive ==
  [][ /\ (ul.pc = "idle" /\ ul'.pc # "idle") => ~NotActive(ul'.eventId)
      /\ (ul.pc = "idle" /\ Returns("updateLocation") /\ NotActive(lastOp'.eventId))
           => /\ lastOp'.ret = Null
              /\ locationHistory' = locationHistory
              /\ devices' = devices ]_vars

\* updateLocation returned null for a resolved event whose device is registered
C10_Witness ==
  /\ lastOp.op = "updateLocation"
  /\ lastOp.ret = Null
  /\ lastOp.eventId \in DOMAIN sosEvents
  /\ sosEvents[lastOp.eventId].status = "resolved"
  /\ devices[lastOp.deviceId] # NoRow

\* what the three steps of an updateLocation call on an active event do:
\* the check writes nothing, the append adds one point of that event, the
\* last step sets the last-known location of the device the call names (if
\* it is registered) and returns the point with the coordinates of the call
UpdateLocationRecords(SameCoordinate(_, _)) ==
  /\ (ul.pc = "idle" /\ ul'.pc = "add")
        => /\ ~NotActive(ul'.eventId)
           /\ locationHistory' = locationHistory
           /\ devices' = devices
  /\ (ul.pc = "add" /\ ul'.pc = "device")
        => LET h == Len(locationHistory) + 1 IN
           /\ Len(locationHistory') = h
           /\ SubSeq(locationHistory', 1, h - 1) = locationHistory
           /\ locationHistory'[h].eventId = ul.eventId
           /\ SameCoordinate(locationHistory'[h].latitude, ul.latitude)
           /\ SameCoordinate(locationHistory'[h].longitude, ul.longitude)
           /\ devices' = devices
  /\ (ul.pc = "device" /\ ul'.pc = "idle")
        => /\ locationHistory' = locationHistory
           /\ Returns("updateLocation")
           /\ lastOp'.ret = << [eventId |-> ul.eventId, latitude |-> ul.latitude,
                                longitude |-> ul.longitude] >>
           /\ \A d \in DeviceIds : d # ul.deviceId => devices'[d] = devices[d]
           /\ devices[ul.deviceId] # NoRow
                 => /\ devices'[ul.deviceId] # NoRow
                    /\ devices'[ul.deviceId][1].lastLocationLat # Null
                    /\ devices'[ul.deviceId][1].lastLocationLng # Null
                    /\ SameCoordinate(devices'[ul.deviceId][1].lastLocationLat[1],
                                      ul.latitude)
                    /\ SameCoordinate(devices'[ul.deviceId][1].lastLocationLng[1],
                                      ul.longitude)

Contact(id, deviceId, phone, email, priority, isActive) ==
  [id |-> id, deviceId |-> deviceId, name |-> "Mina", phone |-> phone,
   email |-> email, priority |-> priority, isActive |-> isActive]

\* the orders a SELECT without ORDER BY may return the rows in
AnyOrder(rows) ==
  LET n == Cardinality(rows)
  IN { s \in [1 .. n -> rows] : \A i, j \in 1 .. n : i # j => s[i] # s[j] }

\* ORDER BY priority ASC: rows of equal priority in an order the store chooses
OrderByPriority(rows) ==
  { s \in AnyOrder(rows) :
      \A i, j \in DOMAIN s : i < j => s[i].priority <= s[j].priority }

\* the result of db.getEmergencyContacts(deviceId) on a table
SelectContacts(table, deviceId) ==
  OrderByPriority(IF dbAvailable THEN {c \in table : c.deviceId = deviceId}
                  ELSE {})

getEmergencyContacts_unordered(deviceId) ==
  AnyOrder(IF dbAvailable THEN {c \in contacts : c.deviceId = deviceId} ELSE {})

\* db.getEmergencyContacts: the device's contacts ordered by priority
\* ascending
getEmergencyContacts(deviceId) == SelectContacts(contacts, deviceId)

\* contact.phone || contact.email || "unknown"
RecipientOf(contact) ==
  IF contact.phone # "" THEN contact.phone
  ELSE IF contact.email # Null THEN contact.email[1]
  ELSE "unknown"

Result(success, notificationId, type, recipient) ==
  [success |-> success, notificationId |-> notificationId, type |-> type,
   recipient |-> recipient]

\* what the pass did for one contact: did the SMS attempt throw, had it
\* inserted its row, was the email attempt made, did a store call of the
\* email attempt fail, did sendEmergencyAlert throw, was a provider called
LogEntry(ps, contact, emailTried, threw) ==
  [contactId |-> contact.id, nid |-> ps.nid, smsThrew |-> ps.smsThrew,
   smsRow |-> ps.smsRow, emailTried |-> emailTried,
   emailFault |-> ps.emailFault, threw |-> threw, provider |-> ps.provider]

\* one contact is done: record its result, go to the next contact
Finish(ps, result, emailTried, threw) ==
  [ps EXCEPT !.results = Append(@, result),
             !.log = Append(@, LogEntry(ps, ps.contacts[ps.i], emailTried, threw)),
             !.i = @ + 1, !.smsThrew = FALSE, !.smsRow = FALSE,
             !.emailFault = FALSE, !.provider = FALSE]

RECURSIVE Loop_noSkip(_, _)
Loop_noSkip(ps, n) ==
  IF ps.i > Len(ps.contacts)
  THEN [ps |-> [ps EXCEPT !.pc = "final"], n |-> n]
  ELSE LET contact == ps.contacts[ps.i]
           me == [ps EXCEPT !.nid = n + 1]
       IN IF contact.phone # ""
          THEN [ps |-> [me EXCEPT !.pc = "sms_create"], n |-> n + 1]
          ELSE IF contact.email # Null
          THEN [ps |-> [me EXCEPT !.pc = "email_create"], n |-> n + 1]
          ELSE Loop_noSkip(Finish(me, Result(FALSE, n + 1, "sms", RecipientOf(contact)),
                                  FALSE, FALSE), n + 1)

RECURSIVE Loop_smsAlways(_, _)
Loop_smsAlways(ps, n) ==
  IF ps.i > Len(ps.contacts)
  THEN [ps |-> [ps EXCEPT !.pc = "final"], n |-> n]
  ELSE LET contact == ps.contacts[ps.i]
           me == [ps EXCEPT !.nid = n + 1]
       IN IF ~contact.isActive
          THEN Loop_smsAlways([ps EXCEPT !.i = @ + 1], n)
          ELSE [ps |-> [me EXCEPT !.pc = "sms_create"], n |-> n + 1]

\* notifyAllContacts 364-369 and sendEmergencyAlert 138-172, up to the next
\* await: skip inactive contacts, draw the notificationId, choose the
\* channel, or return the failure result of a contact without phone and
\* email.  n counts the nanoid() calls.
RECURSIVE Loop(_, _)
Loop(ps, n) ==
  IF ps.i > Len(ps.contacts)
  THEN [ps |-> [ps EXCEPT !.pc = "final"], n |-> n]
  ELSE LET contact == ps.contacts[ps.i]
           me == [ps EXCEPT !.nid = n + 1]
       IN IF ~contact.isActive
          THEN Loop([ps EXCEPT !.i = @ + 1], n)
          ELSE IF contact.phone # ""
          THEN [ps |-> [me EXCEPT !.pc = "sms_create"], n |-> n + 1]
          ELSE IF contact.email # Null
          THEN [ps |-> [me EXCEPT !.pc = "email_create"], n |-> n + 1]
          ELSE Loop(Finish(me, Result(FALSE, n + 1, "sms", RecipientOf(contact)),
                           FALSE, FALSE), n + 1)

OnAlertThrew_abort(ps, n) ==
  [ps |-> [Finish(ps, Result(FALSE, n + 1, "sms", RecipientOf(ps.contacts[ps.i])),
                  TRUE, TRUE) EXCEPT !.pc = "final"],
   n |-> n + 1]

\* notifyAllContacts 370-379: sendEmergencyAlert threw; record a failure
\* result with a new id and go on with the next contact
OnAlertThrew(ps, n) ==
  Loop(Finish(ps, Result(FALSE, n + 1, "sms", RecipientOf(ps.contacts[ps.i])),
              TRUE, TRUE), n + 1)

AfterSmsThrew_rethrow(ps, n) ==
  Loop(Finish([ps EXCEPT !.smsThrew = TRUE],
              Result(FALSE, n + 1, "sms", RecipientOf(ps.contacts[ps.i])),
              FALSE, TRUE), n + 1)

\* sendEmergencyAlert 151-172: the SMS attempt threw and the error was
\* swallowed; try email if the contact has one, else the failure result
AfterSmsThrew(ps, n) ==
  LET contact == ps.contacts[ps.i]
      me == [ps EXCEPT !.smsThrew = TRUE]
  IN IF contact.email # Null
     THEN [ps |-> [me EXCEPT !.pc = "email_create"], n |-> n]
     ELSE Loop(Finish(me, Result(FALSE, ps.nid, "sms", RecipientOf(contact)),
                      FALSE, FALSE), n)

\* db.createNotification: the insert fails on a notificationId already there
\* (notifications_notificationId_unique)
DuplicateId(notificationId) ==
  \E r \in notifications : r.notificationId = notificationId

NewNotification(notificationId, eventId, contactId, type, recipient) ==
  [notificationId |-> notificationId, eventId |-> eventId,
   contactId |-> contactId, type |-> type, recipient |-> recipient,
   status |-> "pending"]

\* the notifications table after db.updateNotification(id, {status})
updateNotification(notificationId, status) ==
  { IF r.notificationId = notificationId THEN [r EXCEPT !.status = status] ELSE r :
      r \in notifications }

\* notifyAllContacts 383: results.filter(r => r.success).length
SuccessCount(results) ==
  Cardinality({k \in DOMAIN results : results[k].success})

Goto(p, r) ==
  /\ pass' = [pass EXCEPT ![p] = r.ps]
  /\ nanoidCtr' = r.n

\* a store call of the notification service throws (connection lost, ...)
Throws ==
  /\ faults < MaxFaults
  /\ faults' = faults + 1

\* notifyAllContacts 361: load the contacts of the event's device.  The
\* argument is an event that sos.trigger returned.
notifyAllContacts_start(p, eventId) ==
  /\ pass[p].pc = "idle"
  /\ p = 2 => pass[1].pc # "idle"
  /\ eventId \in DOMAIN sosEvents
  /\ \E list \in getEmergencyContacts(sosEvents[eventId].deviceId) :
        LET r == Loop([IdlePass EXCEPT !.eventId = eventId,
                                       !.deviceId = sosEvents[eventId].deviceId,
                                       !.contacts = list, !.i = 1,
                                       !.statusAtStart = sosEvents[eventId].status],
                      nanoidCtr)
        IN /\ pass' = [pass EXCEPT ![p] = r.ps]
           /\ nanoidCtr' = r.n
  /\ UNCHANGED << clientVars, reg, sosVars, storeVars, contacts, notifications, faults >>

\* sendSmsAlert 189-200 / sendEmailAlert 255-266: insert the pending row
createStep(p, type) ==
  LET ps == pass[p]
      contact == ps.contacts[ps.i]
      recipient == IF type = "sms" THEN contact.phone
                   ELSE IF contact.email # Null THEN contact.email[1] ELSE ""
  IN
  /\ ps.pc = type \o "_create"
  /\ \/ /\ ~DuplicateId(ps.nid)
        /\ notifications' = notifications \cup
             {NewNotification(ps.nid, ps.eventId, contact.id, type, recipient)}
        /\ pass' = [pass EXCEPT ![p].pc = type \o "_send",
                                ![p].smsRow = (type = "sms")]
        /\ UNCHANGED faults
     \/ /\ DuplicateId(ps.nid)
        /\ pass' = [pass EXCEPT ![p].pc = type \o "_catch"]
        /\ UNCHANGED << notifications, faults >>
     \/ /\ ~DuplicateId(ps.nid)
        /\ Throws
        /\ pass' = [pass EXCEPT ![p].pc = type \o "_catch",
                                ![p].emailFault = (type = "email")]
        /\ UNCHANGED notifications
  /\ UNCHANGED << clientVars, reg, sosVars, storeVars, contacts, nanoidCtr >>

\* sendTwilioSms 300-323 / sendEmailViaApi 328-351: the provider answers
\* success or failure; it catches its own errors and never throws
sendStep(p, type, success) ==
  /\ pass[p].pc = type \o "_send"
  /\ pass' = [pass EXCEPT ![p].pc = type \o "_update", ![p].resp = success,
                          ![p].provider = TRUE]
  /\ UNCHANGED << clientVars, reg, sosVars, storeVars, contacts, notifications, nanoidCtr, faults >>

\* sendSmsAlert 208-221 / sendEmailAlert 272-285: write the status, return
updateStep(p, type) ==
  LET ps == pass[p]
      contact == ps.contacts[ps.i]
      recipient == IF type = "sms" THEN contact.phone
                   ELSE IF contact.email # Null THEN contact.email[1] ELSE ""
  IN
  /\ ps.pc = type \o "_update"
  /\ \/ /\ notifications' =
             updateNotification(ps.nid, IF ps.resp THEN "sent" ELSE "failed")
        /\ Goto(p, Loop(Finish(ps, Result(ps.resp, ps.nid, type, recipient),
                               type = "email", FALSE), nanoidCtr))
        /\ UNCHANGED faults
     \/ /\ Throws
        /\ pass' = [pass EXCEPT ![p].pc = type \o "_catch",
                                ![p].emailFault = (type = "email")]
        /\ UNCHANGED << notifications, nanoidCtr >>
  /\ UNCHANGED << clientVars, reg, sosVars, storeVars, contacts >>

\* sendSmsAlert 222-229: mark the row failed and rethrow (the update may
\* throw as well); sendEmergencyAlert 151-153 swallows the error
sms_catch(p) ==
  /\ pass[p].pc = "sms_catch"
  /\ \/ /\ notifications' = updateNotification(pass[p].nid, "failed")
        /\ UNCHANGED faults
     \/ /\ Throws
        /\ UNCHANGED notifications
  /\ Goto(p, AfterSmsThrew(pass[p], nanoidCtr))
  /\ UNCHANGED << clientVars, reg, sosVars, storeVars, contacts >>

\* sendEmailAlert 286-293: mark the row failed and rethrow; nothing in
\* sendEmergencyAlert catches it, notifyAllContacts 370 does
email_catch(p) ==
  /\ pass[p].pc = "email_catch"
  /\ \/ /\ notifications' = updateNotification(pass[p].nid, "failed")
        /\ UNCHANGED faults
        /\ Goto(p, OnAlertThrew(pass[p], nanoidCtr))
     \/ /\ Throws
        /\ UNCHANGED notifications
        /\ Goto(p, OnAlertThrew([pass[p] EXCEPT !.emailFault = TRUE], nanoidCtr))
  /\ UNCHANGED << clientVars, reg, sosVars, storeVars, contacts >>

updateSosEvent_count_wholeRow(eventId, n) ==
  IF ~dbAvailable \/ eventId \notin DOMAIN sosEvents
  THEN sosEvents
  ELSE [sosEvents EXCEPT ![eventId].notificationsSent = n,
                         ![eventId].status = "active",
                         ![eventId].resolvedAt = Null]

\* db.updateSosEvent(eventId, {notificationsSent}): only that column is set
updateSosEvent_count(eventId, n) ==
  IF ~dbAvailable \/ eventId \notin DOMAIN sosEvents
  THEN sosEvents
  ELSE [sosEvents EXCEPT ![eventId].notificationsSent = n]

\* notifyAllContacts 383-388: write the count of successes, return
notifyAllContacts_final(p) ==
  /\ pass[p].pc = "final"
  /\ sosEvents' = updateSosEvent_count(pass[p].eventId,
                                       SuccessCount(pass[p].results))
  /\ pass' = [pass EXCEPT ![p].pc = "done"]
  /\ UNCHANGED << clientVars, reg, dbAvailable, now, devices, sosRateLimit, locationHistory,
                  ul, lastOp, contacts, notifications, nanoidCtr, faults,
                  storeVars >>

\* The contact tables the passes run on.  Contact 1 (priority 1) and
\* contact 2 (priority 0) belong to d1, each as contacts.add and
\* contacts.update / db.updateEmergencyContact can leave it; contact 3
\* belongs to d2.
ContactKinds ==
  { << Phone, Some(Email), TRUE >>, << Phone, Null, TRUE >>,
    << "", Some(Email), TRUE >>, << "", Null, TRUE >>,
    << Phone, Some(Email), FALSE >> }

NotifyInit ==
  /\ dbAvailable = TRUE
  /\ now = 0
  /\ devices = [d \in DeviceIds |->
        << NewDevice(d, "Asha", Phone, Null) >>]
  /\ sosRateLimit = [d \in DeviceIds |-> NoRow]
  /\ sosEvents = << NewSosEvent(1, "d1", "manual", 1297160000, 775946000, 0) >>
  /\ locationHistory = << NewLocation(1, "d1", 1297160000, 775946000) >>
  /\ ul = IdleUl
  /\ lastOp = NoOp
  /\ \E k1, k2 \in ContactKinds :
        contacts = { Contact(1, "d1", k1[1], k1[2], 1, k1[3]),
                     Contact(2, "d1", k2[1], k2[2], 0, k2[3]),
                     Contact(3, "d2", Phone, Some(Email), 0, TRUE) }
  /\ notifications = {}
  /\ nanoidCtr = 0
  /\ faults = 0
  /\ pass = [p \in PassIds |-> IdlePass]
  /\ contactSeq = 3
  /\ offlineSosQueue = << >>
  /\ activeSessions = [e \in EventIdInputs |-> NoRow]
  /\ ClientInit

NotifyNext ==
  \/ \E p \in PassIds, e \in EventIdInputs : notifyAllContacts_start(p, e)
  \/ \E p \in PassIds, ty \in {"sms", "email"} : createStep(p, ty)
  \/ \E p \in PassIds, ty \in {"sms", "email"}, ok \in BOOLEAN : sendStep(p, ty, ok)
  \/ \E p \in PassIds, ty \in {"sms", "email"} : updateStep(p, ty)
  \/ \E p \in PassIds : sms_catch(p)
  \/ \E p \in PassIds : email_catch(p)
  \/ \E p \in PassIds : notifyAllContacts_final(p)

SpecNotify == NotifyInit /\ [][NotifyNext]_vars


(***************************************************************************)
(* Properties of the notification service.                                 *)
(***************************************************************************)
ContactById(id) == CHOOSE c \in contacts : c.id = id

\* the active contacts of the device of the event a pass is about
ActiveContactsOf(eventId) ==
  {c \in contacts : c.deviceId = sosEvents[eventId].deviceId /\ c.isActive}

\* the contacts a pass has a result for, in the order of the results
Attempted(ps) == [k \in DOMAIN ps.log |-> ps.log[k].contactId]

\* the pass of caller p returns in this step
PassEnds(p) == pass[p].pc = "final" /\ pass'[p].pc = "done"

\* C3: a notifyAllContacts pass returns exactly one result per active
\* contact of the event's device, none for an inactive contact, and then
\* sets the event's notificationsSent to the number of results with
\* success = true.
C3_OneResultPerActiveContact ==
  [][ \A p \in PassIds : PassEnds(p) =>
        LET ps == pass'[p] IN
        /\ Len(ps.results) = Cardinality(ActiveContactsOf(ps.eventId))
        /\ Len(ps.log) = Len(ps.results)
        /\ {ps.log[k].contactId : k \in DOMAIN ps.log}
             = {c.id : c \in ActiveContactsOf(ps.eventId)}
        /\ sosEvents'[ps.eventId].notificationsSent
             = Cardinality({k \in DOMAIN ps.results : ps.results[k].success}) ]_vars

\* a pass over one active and one inactive contact ended with one success
C3_Witness ==
  \E p \in PassIds :
    /\ pass[p].pc = "done"
    /\ Cardinality(ActiveContactsOf(pass[p].eventId)) = 1
    /\ \E c \in contacts : c.deviceId = "d1" /\ ~c.isActive
    /\ Len(pass[p].results) = 1
    /\ pass[p].results[1].success
    /\ sosEvents[pass[p].eventId].notificationsSent = 1

\* C4: at the end of every notifyAllContacts pass, a second or overlapping
\* one included, the event's notificationsSent equals the number of
\* Notification rows of the event whose status is sent or delivered.
C4_Original ==
  [][ \A p \in PassIds : PassEnds(p) =>
        sosEvents'[pass'[p].eventId].notificationsSent
          = Cardinality({r \in notifications' :
                           /\ r.eventId = pass'[p].eventId
                           /\ r.status \in {"sent", "delivered"}}) ]_vars

\* C5: an exception thrown while alerting one contact becomes a failure
\* result for that contact and the later active contacts are still
\* attempted: a pass that has ended has one result per active contact, in
\* the order of the contact list.
C5_FailureDoesNotAbortLoop ==
  \A p \in PassIds :
    LET ps == pass[p]
        active == SelectSeq(ps.contacts, LAMBDA c : c.isActive)
    IN /\ Len(ps.log) = Len(ps.results)
       /\ \A k \in DOMAIN ps.log : ps.log[k].threw => ~ps.results[k].success
       /\ ps.pc \in {"final", "done"}
            => Attempted(ps) = [k \in DOMAIN active |-> active[k].id]

\* the alert of the first contact threw and the second contact was alerted
C5_Witness ==
  \E p \in PassIds :
    /\ pass[p].pc = "done"
    /\ Len(pass[p].log) = 2
    /\ pass[p].log[1].threw
    /\ ~pass[p].results[1].success
    /\ pass[p].results[2].success

HasBoth(contactId) ==
  ContactById(contactId).phone # "" /\ ContactById(contactId).email # Null

\* C6: when a contact has a phone and an email and the SMS attempt throws,
\* sendEmergencyAlert goes on to the email attempt and returns its result
\* (type email) instead of failing (the store not failing the email
\* attempt's own calls).
C6_Original ==
  \A p \in PassIds : \A k \in DOMAIN pass[p].log :
    (/\ HasBoth(pass[p].log[k].contactId)
     /\ pass[p].log[k].smsThrew
     /\ ~pass[p].log[k].emailFault)
      => /\ pass[p].log[k].emailTried
         /\ ~pass[p].log[k].threw
         /\ pass[p].results[k].type = "email"

\* C7: every delivery attempt has its own Notification row: an SMS attempt
\* (whose row was inserted) and the email fallback that follows it leave two
\* rows with different notificationIds, one of type sms and one of type
\* email, and notificationId is unique across all rows.
C7_Original ==
  /\ \A r1, r2 \in notifications :
       r1.notificationId = r2.notificationId => r1 = r2
  /\ \A p \in PassIds : \A k \in DOMAIN pass[p].log :
       (pass[p].log[k].smsRow /\ pass[p].log[k].smsThrew /\ pass[p].log[k].emailTried)
         => \E r1, r2 \in notifications :
              /\ r1.eventId = pass[p].eventId /\ r2.eventId = pass[p].eventId
              /\ r1.contactId = pass[p].log[k].contactId
              /\ r2.contactId = pass[p].log[k].contactId
              /\ r1.type = "sms" /\ r2.type = "email"
              /\ r1.notificationId # r2.notificationId

\* the rows that carry the notificationId of the attempt caller p is in
RowsOfAttempt(p, table) == {r \in table : r.notificationId = pass[p].nid}

\* the attempt of caller p on the channel returns its result in this step
AttemptReturns(p, type) ==
  /\ pass[p].pc = type \o "_update"
  /\ pass'[p] # pass[p]
  /\ pass'[p].pc # type \o "_catch"

\* the attempt of caller p on the channel throws in this step
AttemptThrows(p, type) ==
  /\ pass[p].pc = type \o "_catch"
  /\ pass'[p] # pass[p]

\* C21: in every channel attempt the Notification row is there with status
\* pending when the provider is invoked; when the attempt returns, the row
\* has status sent if the result has success = true and failed if not; when
\* the attempt throws, no row of it is left pending (it is failed).
C21_Original ==
  [][ \A p \in PassIds, type \in {"sms", "email"} :
        /\ (pass[p].pc = type \o "_send" /\ pass'[p].pc = type \o "_update")
              => \E r \in RowsOfAttempt(p, notifications) :
                    r.type = type /\ r.status = "pending"
        /\ AttemptReturns(p, type)
              => /\ RowsOfAttempt(p, notifications') # {}
                 /\ \A r \in RowsOfAttempt(p, notifications') :
                       r.status = IF pass[p].resp THEN "sent" ELSE "failed"
        /\ AttemptThrows(p, type)
              => \A r \in RowsOfAttempt(p, notifications') :
                    r.status = "failed" ]_vars

\* C22: a thrown SMS failure never escapes sendEmergencyAlert: the call goes
\* on to the email attempt of the same contact or, without an email, returns
\* the failure result; a thrown email failure makes sendEmergencyAlert throw
\* to notifyAllContacts; so an alert throws only after its email attempt.
C22_SmsSwallowedEmailEscapes ==
  [][ \A p \in PassIds :
        LET ps == pass[p]
            qs == pass'[p]
            n == Len(ps.log) + 1
        IN
        /\ AttemptThrows(p, "sms")
              => IF ps.contacts[ps.i].email # Null
                 THEN /\ qs.pc = "email_create"
                      /\ qs.i = ps.i
                      /\ qs.log = ps.log
                 ELSE /\ Len(qs.log) >= n
                      /\ qs.log[n].contactId = ps.contacts[ps.i].id
                      /\ qs.log[n].smsThrew
                      /\ ~qs.log[n].threw
                      /\ qs.results[n] = Result(FALSE, ps.nid, "sms",
                                                RecipientOf(ps.contacts[ps.i]))
        /\ AttemptThrows(p, "email")
              => /\ Len(qs.log) >= n
                 /\ qs.log[n].contactId = ps.contacts[ps.i].id
                 /\ qs.log[n].threw
                 /\ ~qs.results[n].success
        /\ \A k \in DOMAIN qs.log : qs.log[k].threw => qs.log[k].emailTried ]_vars

\* in one pass the SMS attempt of a contact without email threw and the
\* alert returned its failure result, and for a contact with both the SMS
\* attempt threw, the email attempt threw and the alert threw
C22_Witness ==
  \E p \in PassIds :
    /\ pass[p].pc = "done"
    /\ \E k \in DOMAIN pass[p].log :
          /\ pass[p].log[k].smsThrew
          /\ ~pass[p].log[k].emailTried
          /\ ~pass[p].log[k].threw
    /\ \E k \in DOMAIN pass[p].log :
          /\ pass[p].log[k].smsThrew
          /\ pass[p].log[k].emailTried
          /\ pass[p].log[k].threw

HasNeither(contactId) ==
  ContactById(contactId).phone = "" /\ ContactById(contactId).email = Null

\* C8: sendEmergencyAlert for a contact with neither phone nor email returns
\* a failure result with recipient "unknown", creates no Notification row
\* and calls no provider.
C8_NoContactMethod ==
  \A p \in PassIds : \A k \in DOMAIN pass[p].log :
    HasNeither(pass[p].log[k].contactId)
      => /\ ~pass[p].results[k].success
         /\ pass[p].results[k].recipient = "unknown"
         /\ ~pass[p].log[k].threw
         /\ ~pass[p].log[k].provider
         /\ \A r \in notifications :
              /\ r.contactId # pass[p].log[k].contactId
              /\ r.notificationId # pass[p].results[k].notificationId

\* a pass alerted a contact without phone and email, and another one by SMS
C8_Witness ==
  \E p \in PassIds :
    /\ pass[p].pc = "done"
    /\ \E k \in DOMAIN pass[p].log : HasNeither(pass[p].log[k].contactId)
    /\ \E r \in notifications : r.status = "sent"


(***************************************************************************)
(* The life of an event with its fan-out: d1 triggers, one caller runs     *)
(* notifyAllContacts on an event, while sos.resolve and updateLocation     *)
(* calls arrive in between its awaits.  One store call of the notification *)
(* service may fail here (SpecNotify has more of those failures).          *)
(***************************************************************************)
LifeInit ==
  /\ dbAvailable = TRUE
  /\ now = 0
  /\ devices = [d \in DeviceIds |-> << NewDevice(d, "Asha", Phone, Null) >>]
  /\ sosRateLimit = [d \in DeviceIds |-> NoRow]
  /\ sosEvents = << >>
  /\ locationHistory = << >>
  /\ ul = IdleUl
  /\ lastOp = NoOp
  /\ contacts = { Contact(1, "d1", Phone, Some(Email), 1, TRUE),
                   Contact(2, "d1", Phone, Null, 0, TRUE) }
  /\ notifications = {}
  /\ nanoidCtr = 0
  /\ faults = MaxFaults - 1
  /\ pass = [p \in PassIds |-> IdlePass]
  /\ contactSeq = 2
  /\ offlineSosQueue = << >>
  /\ activeSessions = [e \in EventIdInputs |-> NoRow]
  /\ ClientInit

LifeNext ==
  \/ trigger("d1", 1297160000, 775946000, "manual")
  \/ \E e \in EventIdInputs : resolve(e)
  \/ \E e \in 1 .. MaxEvents : updateLocation_check(e, "d1", 1297160005, -15)
  \/ updateLocation_add
  \/ updateLocation_device
  \/ \E e \in 1 .. MaxEvents : notifyAllContacts_start(1, e)
  \/ \E ty \in {"sms", "email"} : createStep(1, ty)
  \/ \E ty \in {"sms", "email"}, ok \in BOOLEAN : sendStep(1, ty, ok)
  \/ \E ty \in {"sms", "email"} : updateStep(1, ty)
  \/ sms_catch(1)
  \/ email_catch(1)
  \/ notifyAllContacts_final(1)

SpecLife == LifeInit /\ [][LifeNext]_vars

\* C11: an SosEvent row is created with status active only; once its status
\* is not active, no trigger, resolve, updateLocation or notifyAllContacts
\* step changes its status again; no row ever has status cancelled or expired.
C11_StatusNeverReopens ==
  [][ /\ \A e \in DOMAIN sosEvents :
            /\ e \in DOMAIN sosEvents'
            /\ sosEvents[e].status # "active"
                  => sosEvents'[e].status = sosEvents[e].status
      /\ \A e \in DOMAIN sosEvents' :
            /\ e \notin DOMAIN sosEvents => sosEvents'[e].status = "active"
            /\ sosEvents'[e].status \in EventStatuses \ {"cancelled", "expired"} ]_vars

\* event 1 was resolved; after that a pass on it wrote its count, a second
\* event was created and event 1 was resolved once more
C11_Witness ==
  /\ Len(sosEvents) = 2
  /\ sosEvents[1].status = "resolved"
  /\ sosEvents[2].status = "active"
  /\ pass[1].pc = "done"
  /\ pass[1].eventId = 1
  /\ pass[1].statusAtStart = "resolved"
  /\ sosEvents[1].notificationsSent = 2
  /\ lastOp.op = "resolve"
  /\ lastOp.eventId = 1
  /\ lastOp.ret # Null
  /\ lastOp.ret[1].notificationsSent = 2

\* C15: sos.resolve running while a notifyAllContacts pass for the event is
\* in flight does not interrupt the pass: the resolve leaves the pass where
\* it is, the pass still ends with a result for every active contact and
\* writes notificationsSent, and from the resolve on the event stays
\* resolved with its resolvedAt, the final write of the pass included.
C15_ResolveDuringPass ==
  [][ \A p \in PassIds :
        LET e == pass[p].eventId IN
        /\ (Returns("resolve") /\ pass[p].pc \notin {"idle", "done"})
              => pass'[p] = pass[p]
        /\ (pass[p].pc \notin {"idle", "done"} /\ sosEvents[e].status = "resolved")
              => /\ sosEvents'[e].status = "resolved"
                 /\ sosEvents'[e].resolvedAt # Null
        /\ PassEnds(p)
              => /\ {pass'[p].log[k].contactId : k \in DOMAIN pass'[p].log}
                      = {c.id : c \in ActiveContactsOf(e)}
                 /\ Len(pass'[p].results) = Cardinality(ActiveContactsOf(e))
                 /\ sosEvents'[e].notificationsSent = SuccessCount(pass[p].results)
                 /\ sosEvents'[e].status = sosEvents[e].status
                 /\ sosEvents'[e].resolvedAt = sosEvents[e].resolvedAt ]_vars

\* a pass began on an active event, the event was resolved before the pass
\* had written its count, and the pass ended with two successes
C15_Witness ==
  /\ pass[1].pc = "done"
  /\ pass[1].statusAtStart = "active"
  /\ Len(pass[1].results) = 2
  /\ sosEvents[pass[1].eventId].status = "resolved"
  /\ sosEvents[pass[1].eventId].resolvedAt # Null
  /\ sosEvents[pass[1].eventId].notificationsSent = 2
  /\ lastOp.op = "resolve"
  /\ lastOp.eventId = pass[1].eventId
  /\ lastOp.ret # Null
  /\ lastOp.ret[1].notificationsSent = 0


(***************************************************************************)
(* The contacts router: contacts.list, add, update, delete.                *)
(***************************************************************************)
\* the updates a contacts.update call carries: the fields left out are Null
ContactUpdates ==
  { [name |-> Null, phone |-> Null, email |-> Null, priority |-> Some(2)],
    [name |-> Null, phone |-> Null, email |-> Null, priority |-> Some(0)] }

\* contacts.list
list(deviceId) ==
  /\ \E found \in getEmergencyContacts(deviceId) :
        ReturnedOf("list", "", [deviceId |-> deviceId], Some(found))
  /\ UNCHANGED << clientVars, reg, dbAvailable, now, devices, sosRateLimit, sosEvents,
                  locationHistory, ul, notifyVars, storeVars >>

\* contacts.find(c => c.name === contact.name && c.phone === contact.phone)
FindByNameAndPhone(found, name, phone) ==
  LET hits == {k \in DOMAIN found :
                 found[k].name = name /\ found[k].phone = phone}
  IN IF hits = {} THEN Null
     ELSE Some(found[CHOOSE k \in hits : \A h \in hits : k <= h])

\* contacts.add and db.createEmergencyContact: insert, then look the row up
\* by name and phone among the device's contacts
add(deviceId, name, phone, email, priority) ==
  LET input == [deviceId |-> deviceId, name |-> name, phone |-> phone,
                email |-> email, priority |-> priority]
      row == [Contact(contactSeq + 1, deviceId, phone, email, priority, TRUE)
                EXCEPT !.name = name]
  IN
  IF ~dbAvailable
  THEN /\ ReturnedOf("add", "INTERNAL_SERVER_ERROR", input, Null)
       /\ UNCHANGED << contacts, contactSeq >>
       /\ UNCHANGED << clientVars, reg, dbAvailable, now, devices, sosRateLimit, sosEvents,
                       locationHistory, ul, notifications, nanoidCtr, faults,
                       pass, offlineSosQueue, activeSessions >>
  ELSE /\ contactSeq < MaxContacts
       /\ contactSeq' = contactSeq + 1
       /\ contacts' = contacts \cup {row}
       /\ \E found \in SelectContacts(contacts', deviceId) :
             ReturnedOf("add", "", input, FindByNameAndPhone(found, name, phone))
       /\ UNCHANGED << clientVars, reg, dbAvailable, now, devices, sosRateLimit, sosEvents,
                       locationHistory, ul, notifications, nanoidCtr, faults,
                       pass, offlineSosQueue, activeSessions >>

\* the table after db.update(emergencyContacts).set(updates).where(id)
updateEmergencyContact(id, updates) ==
  IF ~dbAvailable THEN contacts
  ELSE { IF c.id # id THEN c
         ELSE [c EXCEPT
                 !.name = IF updates.name = Null THEN @ ELSE updates.name[1],
                 !.phone = IF updates.phone = Null THEN @ ELSE updates.phone[1],
                 !.email = IF updates.email = Null THEN @ ELSE updates.email,
                 !.priority = IF updates.priority = Null THEN @
                              ELSE updates.priority[1]] :
         c \in contacts }

\* contacts.update
update(id, updates) ==
  /\ contacts' = updateEmergencyContact(id, updates)
  /\ LET hit == IF dbAvailable THEN {c \in contacts' : c.id = id} ELSE {}
     IN IF hit = {}
        THEN ReturnedOf("update", "NOT_FOUND", [id |-> id, updates |-> updates], Null)
        ELSE ReturnedOf("update", "", [id |-> id, updates |-> updates],
                        Some(CHOOSE c \in hit : TRUE))
  /\ UNCHANGED << clientVars, reg, dbAvailable, now, devices, sosRateLimit, sosEvents,
                  locationHistory, ul, notifications, nanoidCtr, faults,
                  pass, storeVars >>

\* contacts.delete and db.deleteEmergencyContact
delete(id) ==
  /\ contacts' = IF dbAvailable THEN {c \in contacts : c.id # id} ELSE contacts
  /\ ReturnedOf("delete", "", [id |-> id], Some([success |-> dbAvailable]))
  /\ UNCHANGED << clientVars, reg, dbAvailable, now, devices, sosRateLimit, sosEvents,
                  locationHistory, ul, notifications, nanoidCtr, faults,
                  pass, storeVars >>

ContactsNext ==
  \/ \E d \in DeviceIds, pr \in {0, 1} : add(d, "Mina", Phone, Null, pr)
  \/ \E id \in 1 .. MaxContacts, u \in ContactUpdates : update(id, u)
  \/ \E id \in 1 .. MaxContacts : delete(id)
  \/ \E d \in DeviceIds : list(d)

SpecContacts == SosInit /\ [][ContactsNext]_vars

\* C13: after any add, update and delete calls contacts.list(deviceId)
\* returns exactly the contacts of that device, each once, sorted by
\* priority ascending.
C13_ListOwnedSorted ==
  lastOp.op = "list" =>
    LET found == lastOp.ret[1]
        own == {c \in contacts : c.deviceId = lastOp.input.deviceId}
    IN /\ lastOp.error = ""
       /\ {found[k] : k \in DOMAIN found} = own
       /\ Len(found) = Cardinality(own)
       /\ \A i, j \in DOMAIN found :
             i < j => found[i].priority <= found[j].priority

\* the list of a device has a contact that was moved to priority 2 behind
\* one that was added after it, while the other device has a contact too
C13_Witness ==
  /\ lastOp.op = "list"
  /\ Len(lastOp.ret[1]) = 2
  /\ lastOp.ret[1][1].id > lastOp.ret[1][2].id
  /\ lastOp.ret[1][2].priority = 2
  /\ \E c \in contacts : c.deviceId # lastOp.input.deviceId


(***************************************************************************)
(* The read procedures and the offline queue of the server.                *)
(***************************************************************************)
Reverse(s) == [k \in 1 .. Len(s) |-> s[Len(s) + 1 - k]]

getActiveSosEvents_noDbCheck(deviceId) ==
  Reverse(SelectSeq(sosEvents,
            LAMBDA r : r.deviceId = deviceId /\ r.status = "active"))

\* db.getActiveSosEvents: the device's active events, the newest first
getActiveSosEvents(deviceId) ==
  IF ~dbAvailable THEN << >>
  ELSE Reverse(SelectSeq(sosEvents,
                 LAMBDA r : r.deviceId = deviceId /\ r.status = "active"))

\* db.getLocationHistory: the event's points, the newest first
getLocationHistory_db(eventId) ==
  IF ~dbAvailable THEN << >>
  ELSE Reverse(SelectSeq(locationHistory, LAMBDA r : r.eventId = eventId))

getPendingOfflineSosRequests_allStatuses(deviceId) ==
  IF ~dbAvailable THEN << >>
  ELSE SelectSeq(offlineSosQueue, LAMBDA r : r.deviceId = deviceId)

\* db.getPendingOfflineSosRequests: the device's pending requests, the
\* oldest first
getPendingOfflineSosRequests(deviceId) ==
  IF ~dbAvailable THEN << >>
  ELSE SelectSeq(offlineSosQueue,
         LAMBDA r : r.deviceId = deviceId /\ r.status = "pending")

\* the row offline.queueSos inserts (queueId = nanoid())
NewOfflineSosRequest(queueId, deviceId, lat, lng) ==
  [queueId |-> queueId, deviceId |-> deviceId,
   latitude |-> ToDecimal(NumberToString(lat)),
   longitude |-> ToDecimal(NumberToString(lng)),
   status |-> "pending", retryCount |-> 0, eventId |-> Null, syncedAt |-> Null]

\* the table after db.updateOfflineSosRequest(queueId, {status: "synced",
\* eventId, syncedAt: new Date()})
updateOfflineSosRequest(queueId, eventId, ts) ==
  IF ~dbAvailable \/ queueId \notin DOMAIN offlineSosQueue
  THEN offlineSosQueue
  ELSE [offlineSosQueue EXCEPT ![queueId].status = "synced",
                               ![queueId].eventId = Some(eventId),
                               ![queueId].syncedAt = Some(ts)]

\* device.getDevice
getDevice(deviceId) ==
  /\ ReturnedOf("getDevice", "", [deviceId |-> deviceId],
                getDeviceByDeviceId(deviceId))
  /\ UNCHANGED << clientVars, reg, dbAvailable, now, devices, sosRateLimit, sosEvents,
                  locationHistory, ul, notifyVars, storeVars >>

\* sos.getActive
getActive(deviceId) ==
  /\ ReturnedOf("getActive", "", [deviceId |-> deviceId],
                Some(getActiveSosEvents(deviceId)))
  /\ UNCHANGED << clientVars, reg, dbAvailable, now, devices, sosRateLimit, sosEvents,
                  locationHistory, ul, notifyVars, storeVars >>

\* sos.getLocationHistory
getLocationHistory(eventId) ==
  /\ ReturnedOf("getLocationHistory", "", [eventId |-> eventId],
                Some(getLocationHistory_db(eventId)))
  /\ UNCHANGED << clientVars, reg, dbAvailable, now, devices, sosRateLimit, sosEvents,
                  locationHistory, ul, notifyVars, storeVars >>

\* offline.getPending
getPending(deviceId) ==
  /\ ReturnedOf("getPending", "", [deviceId |-> deviceId],
                Some(getPendingOfflineSosRequests(deviceId)))
  /\ UNCHANGED << clientVars, reg, dbAvailable, now, devices, sosRateLimit, sosEvents,
                  locationHistory, ul, notifyVars, storeVars >>

\* offline.queueSos and db.addOfflineSosRequest
queueSos(deviceId, lat, lng) ==
  LET input == [deviceId |-> deviceId, latitude |-> lat, longitude |-> lng]
      queueId == Len(offlineSosQueue) + 1
  IN
  IF ~dbAvailable
  THEN /\ ReturnedOf("queueSos", "INTERNAL_SERVER_ERROR", input, Null)
       /\ UNCHANGED << clientVars, reg, dbAvailable, now, devices, sosRateLimit, sosEvents,
                       locationHistory, ul, notifyVars, storeVars >>
  ELSE /\ Len(offlineSosQueue) < MaxQueue
       /\ offlineSosQueue' = Append(offlineSosQueue,
             NewOfflineSosRequest(queueId, deviceId, lat, lng))
       /\ ReturnedOf("queueSos", "", input, Some(offlineSosQueue'[queueId]))
       /\ UNCHANGED << clientVars, reg, dbAvailable, now, devices, sosRateLimit, sosEvents,
                       locationHistory, ul, notifyVars, contactSeq,
                       activeSessions >>

\* offline.markSynced
markSynced(queueId, eventId) ==
  LET input == [queueId |-> queueId, eventId |-> eventId] IN
  /\ offlineSosQueue' = updateOfflineSosRequest(queueId, eventId, now)
  /\ IF ~dbAvailable \/ queueId \notin DOMAIN offlineSosQueue'
     THEN ReturnedOf("markSynced", "NOT_FOUND", input, Null)
     ELSE ReturnedOf("markSynced", "", input, Some(offlineSosQueue'[queueId]))
  /\ UNCHANGED << clientVars, reg, dbAvailable, now, devices, sosRateLimit, sosEvents,
                  locationHistory, ul, notifyVars, contactSeq, activeSessions >>

\* The server starts with or without DATABASE_URL, on a store that is empty
\* or holds what an earlier run of the server wrote: d1 registered with one
\* contact, one active event with its first point, one pending request.
StoreStartInit ==
  /\ dbAvailable \in BOOLEAN
  /\ now = 0
  /\ sosRateLimit = [d \in DeviceIds |-> NoRow]
  /\ ul = IdleUl
  /\ lastOp = NoOp
  /\ notifications = {}
  /\ nanoidCtr = 0
  /\ faults = 0
  /\ pass = [p \in PassIds |-> IdlePass]
  /\ activeSessions = [e \in EventIdInputs |-> NoRow]
  /\ ClientInit
  /\ \/ /\ devices = [d \in DeviceIds |-> NoRow]
        /\ sosEvents = << >>
        /\ locationHistory = << >>
        /\ contacts = {}
        /\ contactSeq = 0
        /\ offlineSosQueue = << >>
     \/ /\ devices = [d \in DeviceIds |->
              IF d = "d1"
              THEN << [NewDevice(d, "Asha", Phone, Null) EXCEPT
                         !.lastLocationLat = Some(ToDecimal(NumberToString(1297160000))),
                         !.lastLocationLng = Some(ToDecimal(NumberToString(775946000))),
                         !.lastLocationTimestamp = Some(0)] >>
              ELSE NoRow]
        /\ sosEvents = << NewSosEvent(1, "d1", "manual", 1297160000, 775946000, 0) >>
        /\ locationHistory = << NewLocation(1, "d1", 1297160000, 775946000) >>
        /\ contacts = { Contact(1, "d1", Phone, Null, 0, TRUE) }
        /\ contactSeq = 1
        /\ offlineSosQueue = << NewOfflineSosRequest(1, "d1", 1297160000, 775946000) >>

StoreNext ==
  \/ \E d \in DeviceIds : getDevice(d)
  \/ \E d \in DeviceIds : list(d)
  \/ \E d \in DeviceIds : getActive(d)
  \/ \E e \in EventIdInputs : getLocationHistory(e)
  \/ \E d \in DeviceIds : getPending(d)
  \/ \E d \in DeviceIds : queueSos(d, 1297160005, -15)
  \/ \E q \in 1 .. (MaxQueue + 1), e \in EventIdInputs : markSynced(q, e)

SpecStore == StoreStartInit /\ [][StoreNext]_vars

\* the read procedures of the claim
ReadOps == {"list", "getActive", "getLocationHistory", "getPending", "getDevice"}

\* C17: while getDb() gives no handle, contacts.list, sos.getActive,
\* sos.getLocationHistory and offline.getPending return an empty list and
\* device.getDevice returns null, none of them fails, and no stored row
\* changes.
C17_ReadsWithoutStore ==
  [][ (~dbAvailable /\ \E op \in ReadOps : Returns(op))
        => /\ lastOp'.error = ""
           /\ lastOp'.ret = IF lastOp'.op = "getDevice" THEN Null ELSE Some(<< >>)
           /\ UNCHANGED << devices, contacts, sosEvents, locationHistory,
                           offlineSosQueue, sosRateLimit, notifications >> ]_vars

\* without a handle sos.getActive returned the empty list for a device that
\* has an active event in the store
C17_Witness ==
  /\ ~dbAvailable
  /\ lastOp.op = "getActive"
  /\ lastOp.error = ""
  /\ lastOp.ret = Some(<< >>)
  /\ \E e \in DOMAIN sosEvents :
        sosEvents[e].deviceId = lastOp.input.deviceId /\ sosEvents[e].status = "active"

\* C18: offline.markSynced that succeeds leaves its queue item synced and
\* linked to the given eventId and every other item as it was; on a queueId
\* without a row it fails with NOT_FOUND and changes no item; a synced item
\* stays synced, and offline.getPending returns the pending items of the
\* device and no other, so never a synced one.
C18_MarkSynced ==
  [][ /\ Returns("markSynced") =>
            LET q == lastOp'.input.queueId IN
            /\ DOMAIN offlineSosQueue' = DOMAIN offlineSosQueue
            /\ \A o \in DOMAIN offlineSosQueue :
                  o # q => offlineSosQueue'[o] = offlineSosQueue[o]
            /\ lastOp'.error = ""
                  => /\ q \in DOMAIN offlineSosQueue
                     /\ offlineSosQueue'[q].status = "synced"
                     /\ offlineSosQueue'[q].eventId = Some(lastOp'.input.eventId)
                     /\ offlineSosQueue'[q].deviceId = offlineSosQueue[q].deviceId
                     /\ lastOp'.ret = Some(offlineSosQueue'[q])
            /\ q \notin DOMAIN offlineSosQueue
                  => /\ lastOp'.error = "NOT_FOUND"
                     /\ offlineSosQueue' = offlineSosQueue
            /\ (dbAvailable /\ q \in DOMAIN offlineSosQueue) => lastOp'.error = ""
      /\ \A q \in DOMAIN offlineSosQueue :
            offlineSosQueue[q].status = "synced"
              => /\ q \in DOMAIN offlineSosQueue'
                 /\ offlineSosQueue'[q].status = "synced"
      /\ Returns("getPending") =>
            LET got == lastOp'.ret[1] IN
            /\ \A k \in DOMAIN got : got[k].status = "pending"
            /\ dbAvailable =>
                  {got[k].queueId : k \in DOMAIN got}
                    = {q \in DOMAIN offlineSosQueue :
                         /\ offlineSosQueue[q].deviceId = lastOp'.input.deviceId
                         /\ offlineSosQueue[q].status = "pending"} ]_vars

\* a device has one item marked synced and linked to an event and one still
\* pending, and offline.getPending returned the pending one alone
C18_Witness ==
  /\ lastOp.op = "getPending"
  /\ Len(lastOp.ret[1]) = 1
  /\ \E q \in DOMAIN offlineSosQueue :
        /\ offlineSosQueue[q].deviceId = lastOp.input.deviceId
        /\ offlineSosQueue[q].status = "synced"
        /\ offlineSosQueue[q].eventId # Null
        /\ lastOp.ret[1][1].queueId # q
        /\ offlineSosQueue[lastOp.ret[1][1].queueId].deviceId = lastOp.input.deviceId


(***************************************************************************)
(* The tracking service: the registry of tracking sessions.  Here the      *)
(* clock counts milliseconds.  A Set of JavaScript keeps its members in    *)
(* the order they were added: a sequence without repetition.               *)
(***************************************************************************)
\* cleanupExpiredSessions 164
maxAge == 24 * 60 * 60 * 1000

SubscriberIds == {"s1", "s2"}
\* the eventIds the callers of the tracking service name
SessionIdInputs == {1, 2}

Members(seq) == {seq[k] : k \in DOMAIN seq}

\* Set.add
SetAdd(seq, x) == IF x \in Members(seq) THEN seq ELSE Append(seq, x)

\* Set.delete
SetDelete(seq, x) == SelectSeq(seq, LAMBDA y : y # x)

\* time passes: up to 24 hours and MaxDrift milliseconds, the clock being
\* read within MaxDrift milliseconds of the start and of the 24 hours
Elapse(dt) ==
  /\ now + dt <= maxAge + MaxDrift
  /\ (now + dt) % maxAge <= MaxDrift
  /\ now' = now + dt
  /\ UNCHANGED << clientVars, reg, dbAvailable, devices, sosRateLimit, sosEvents,
                  locationHistory, ul, lastOp, notifyVars, storeVars >>

startTracking_keepsSession(eventId, deviceId) ==
  LET session == IF activeSessions[eventId] # NoRow
                 THEN activeSessions[eventId][1]
                 ELSE [eventId |-> eventId, deviceId |-> deviceId,
                       subscribers |-> << >>, startedAt |-> now]
  IN
  /\ activeSessions' = [activeSessions EXCEPT ![eventId] = << session >>]
  /\ ReturnedOf("startTracking", "",
                [eventId |-> eventId, deviceId |-> deviceId,
                 replaces |-> activeSessions[eventId]],
                Some(session))
  /\ UNCHANGED << clientVars, reg, dbAvailable, now, devices, sosRateLimit, sosEvents,
                  locationHistory, ul, notifyVars, contactSeq, offlineSosQueue >>

\* startTracking; with its input the call record keeps the session that was
\* there, for the properties to tell a replacement
startTracking(eventId, deviceId) ==
  LET session == [eventId |-> eventId, deviceId |-> deviceId,
                  subscribers |-> << >>, startedAt |-> now]
  IN
  /\ activeSessions' = [activeSessions EXCEPT ![eventId] = << session >>]
  /\ ReturnedOf("startTracking", "",
                [eventId |-> eventId, deviceId |-> deviceId,
                 replaces |-> activeSessions[eventId]],
                Some(session))
  /\ UNCHANGED << clientVars, reg, dbAvailable, now, devices, sosRateLimit, sosEvents,
                  locationHistory, ul, notifyVars, contactSeq, offlineSosQueue >>

stopTracking(eventId) ==
  /\ activeSessions' = [activeSessions EXCEPT ![eventId] = NoRow]
  /\ ReturnedOf("stopTracking", "", [eventId |-> eventId],
                Some(activeSessions[eventId] # NoRow))
  /\ UNCHANGED << clientVars, reg, dbAvailable, now, devices, sosRateLimit, sosEvents,
                  locationHistory, ul, notifyVars, contactSeq, offlineSosQueue >>

addSubscriber_createsSession(eventId, subscriberId) ==
  /\ activeSessions' = [activeSessions EXCEPT ![eventId] =
        IF @ = NoRow
        THEN << [eventId |-> eventId, deviceId |-> "d1",
                 subscribers |-> << subscriberId >>, startedAt |-> now] >>
        ELSE << [@[1] EXCEPT !.subscribers = SetAdd(@, subscriberId)] >>]
  /\ ReturnedOf("addSubscriber", "",
                [eventId |-> eventId, subscriberId |-> subscriberId], Some(TRUE))
  /\ UNCHANGED << clientVars, reg, dbAvailable, now, devices, sosRateLimit, sosEvents,
                  locationHistory, ul, notifyVars, contactSeq, offlineSosQueue >>

addSubscriber(eventId, subscriberId) ==
  LET session == activeSessions[eventId]
      input == [eventId |-> eventId, subscriberId |-> subscriberId]
  IN
  /\ IF session = NoRow
     THEN /\ ReturnedOf("addSubscriber", "", input, Some(FALSE))
          /\ UNCHANGED activeSessions
     ELSE /\ activeSessions' = [activeSessions EXCEPT ![eventId] =
                << [@[1] EXCEPT !.subscribers = SetAdd(@, subscriberId)] >>]
          /\ ReturnedOf("addSubscriber", "", input, Some(TRUE))
  /\ UNCHANGED << clientVars, reg, dbAvailable, now, devices, sosRateLimit, sosEvents,
                  locationHistory, ul, notifyVars, contactSeq, offlineSosQueue >>

removeSubscriber(eventId, subscriberId) ==
  LET session == activeSessions[eventId]
      input == [eventId |-> eventId, subscriberId |-> subscriberId]
  IN
  /\ IF session = NoRow
     THEN /\ ReturnedOf("removeSubscriber", "", input, Some(FALSE))
          /\ UNCHANGED activeSessions
     ELSE /\ activeSessions' = [activeSessions EXCEPT ![eventId] =
                << [@[1] EXCEPT !.subscribers = SetDelete(@, subscriberId)] >>]
          /\ ReturnedOf("removeSubscriber", "", input, Some(TRUE))
  /\ UNCHANGED << clientVars, reg, dbAvailable, now, devices, sosRateLimit, sosEvents,
                  locationHistory, ul, notifyVars, contactSeq, offlineSosQueue >>

\* Array.from(session.subscribers), or [] without a session
getSubscribers(eventId) ==
  /\ ReturnedOf("getSubscribers", "", [eventId |-> eventId],
                Some(IF activeSessions[eventId] = NoRow THEN << >>
                     ELSE activeSessions[eventId][1].subscribers))
  /\ UNCHANGED << clientVars, reg, dbAvailable, now, devices, sosRateLimit, sosEvents,
                  locationHistory, ul, notifyVars, storeVars >>

IsExpired_atLeast(session, t) == t - session.startedAt >= maxAge

\* cleanupExpiredSessions 169
IsExpired(session, t) == t - session.startedAt > maxAge

\* the call reads the clock once (163) and returns the number it deleted
cleanupExpiredSessions ==
  LET expired == {e \in DOMAIN activeSessions :
                    /\ activeSessions[e] # NoRow
                    /\ IsExpired(activeSessions[e][1], now)}
  IN
  /\ activeSessions' = [e \in DOMAIN activeSessions |->
                          IF e \in expired THEN NoRow ELSE activeSessions[e]]
  /\ ReturnedOf("cleanupExpiredSessions", "", [now |-> now],
                Some(Cardinality(expired)))
  /\ UNCHANGED << clientVars, reg, dbAvailable, now, devices, sosRateLimit, sosEvents,
                  locationHistory, ul, notifyVars, contactSeq, offlineSosQueue >>

RegistryInit == SosInit /\ dbAvailable

RegistryNext ==
  \/ \E dt \in {1, maxAge} : Elapse(dt)
  \/ \E e \in SessionIdInputs, d \in DeviceIds : startTracking(e, d)
  \/ \E e \in SessionIdInputs : stopTracking(e)
  \/ \E e \in SessionIdInputs, sub \in SubscriberIds : addSubscriber(e, sub)
  \/ \E e \in SessionIdInputs, sub \in SubscriberIds : removeSubscriber(e, sub)
  \/ \E e \in SessionIdInputs : getSubscribers(e)
  \/ cleanupExpiredSessions

SpecRegistry == RegistryInit /\ [][RegistryNext]_vars

\* C19: addSubscriber and removeSubscriber on an eventId without a tracking
\* session return false and leave the registry as it was; on a session they
\* return true and add or remove just the given subscriber id, every other
\* field and session staying as it was, and no id is ever held twice.
C19_Subscribers ==
  [][ (Returns("addSubscriber") \/ Returns("removeSubscriber")) =>
        LET e == lastOp'.input.eventId
            sub == lastOp'.input.subscriberId
        IN
        /\ \A o \in DOMAIN activeSessions :
              o # e => activeSessions'[o] = activeSessions[o]
        /\ activeSessions[e] = NoRow
              => /\ lastOp'.ret = Some(FALSE)
                 /\ activeSessions' = activeSessions
        /\ activeSessions[e] # NoRow
              => LET old == activeSessions[e][1].subscribers
                     new == activeSessions'[e][1].subscribers
                 IN /\ lastOp'.ret = Some(TRUE)
                    /\ activeSessions'[e] = << [activeSessions[e][1] EXCEPT
                                                  !.subscribers = new] >>
                    /\ Members(new) = IF lastOp'.op = "addSubscriber"
                                      THEN Members(old) \cup {sub}
                                      ELSE Members(old) \ {sub}
                    /\ Len(new) = Cardinality(Members(new)) ]_vars

\* s2 was added, then s1, then s2 again: the session holds each once, while
\* the other eventId has no session
C19_Witness ==
  /\ lastOp.op = "addSubscriber"
  /\ lastOp.ret = Some(TRUE)
  /\ lastOp.input.subscriberId = "s2"
  /\ activeSessions[lastOp.input.eventId] # NoRow
  /\ activeSessions[lastOp.input.eventId][1].subscribers = << "s2", "s1" >>
  /\ \E o \in SessionIdInputs : activeSessions[o] = NoRow

\* C20: cleanupExpiredSessions removes exactly the sessions whose age, now
\* minus startedAt, is more than 24 hours, leaves every other session with
\* its subscribers as it was, and returns the number it removed; a second
\* sweep at the same time returns 0.
C20_Cleanup ==
  [][ Returns("cleanupExpiredSessions") =>
        LET old == {e \in DOMAIN activeSessions :
                      /\ activeSessions[e] # NoRow
                      /\ now - activeSessions[e][1].startedAt > 24 * 60 * 60 * 1000}
        IN
        /\ \A e \in DOMAIN activeSessions :
              activeSessions'[e] = IF e \in old THEN NoRow ELSE activeSessions[e]
        /\ lastOp'.ret = Some(Cardinality(old))
        /\ (lastOp.op = "cleanupExpiredSessions" /\ lastOp.input.now = now)
              => lastOp'.ret = Some(0) ]_vars

\* a sweep removed one session and left one that is exactly 24 hours old,
\* with its subscriber
C20_Witness ==
  /\ lastOp.op = "cleanupExpiredSessions"
  /\ lastOp.ret = Some(1)
  /\ lastOp.input.now = now
  /\ \E e, o \in SessionIdInputs :
        /\ activeSessions[o] = NoRow
        /\ activeSessions[e] # NoRow
        /\ now - activeSessions[e][1].startedAt = maxAge
        /\ activeSessions[e][1].subscribers # << >>

\* C24: startTracking(eventId, deviceId) leaves for eventId the one session
\* with the given deviceId and no subscriber, whether or not a session was
\* there before, and returns it; stopTracking(eventId) removes that event's
\* session and returns true exactly when one existed; both leave the
\* sessions of other events as they were.
C24_StartStop ==
  [][ /\ Returns("startTracking") =>
            LET e == lastOp'.input.eventId IN
            /\ activeSessions'[e] # NoRow
            /\ activeSessions'[e][1].eventId = e
            /\ activeSessions'[e][1].deviceId = lastOp'.input.deviceId
            /\ activeSessions'[e][1].subscribers = << >>
            /\ activeSessions'[e][1].startedAt = now
            /\ lastOp'.ret = activeSessions'[e]
            /\ \A o \in DOMAIN activeSessions :
                  o # e => activeSessions'[o] = activeSessions[o]
      /\ Returns("stopTracking") =>
            LET e == lastOp'.input.eventId IN
            /\ activeSessions'[e] = NoRow
            /\ lastOp'.ret = Some(activeSessions[e] # NoRow)
            /\ \A o \in DOMAIN activeSessions :
                  o # e => activeSessions'[o] = activeSessions[o] ]_vars

\* startTracking replaced a session of the other device that had a
\* subscriber, while the session of another event kept its subscriber
C24_Witness ==
  /\ lastOp.op = "startTracking"
  /\ lastOp.input.replaces # NoRow
  /\ lastOp.input.replaces[1].subscribers # << >>
  /\ lastOp.input.replaces[1].deviceId # lastOp.input.deviceId
  /\ activeSessions[lastOp.input.eventId] = lastOp.ret
  /\ lastOp.ret[1].subscribers = << >>
  /\ \E o \in SessionIdInputs :
        /\ o # lastOp.input.eventId
        /\ activeSessions[o] # NoRow
        /\ activeSessions[o][1].subscribers # << >>

\* C26 as stated: for any interleaving of updateLocation and sos.resolve on
\* the same event, once the event's status is resolved no LocationHistory
\* row is appended to it and the last-known location of the device is not
\* refreshed.
C26_Original ==
  [][ /\ (ul.pc = "add" /\ ul'.pc = "device"
            /\ sosEvents[ul.eventId].status = "resolved")
        => locationHistory' = locationHistory
      /\ (ul.pc = "device" /\ ul'.pc = "idle"
            /\ sosEvents[ul.eventId].status = "resolved")
        => devices' = devices ]_vars

\* C30 as stated: after any sos.trigger and updateLocation calls every
\* LocationHistory row carries the deviceId of the SosEvent named by its
\* eventId, and updateLocation changes the last-known location only of the
\* device that owns the event.
C30_Original ==
  [][ /\ \A k \in DOMAIN locationHistory' :
            /\ locationHistory'[k].eventId \in DOMAIN sosEvents'
            /\ locationHistory'[k].deviceId
                 = sosEvents'[locationHistory'[k].eventId].deviceId
      /\ (ul.pc = "device" /\ ul'.pc = "idle")
        => \A d \in DeviceIds :
              d # sosEvents[ul.eventId].deviceId => devices'[d] = devices[d] ]_vars

\* C29 as stated: contacts.add returns the contact row it has just inserted
\* (a new id, the submitted priority, isActive = true), also when the device
\* already has a contact with the same name and phone.
C29_Original ==
  [][ (Returns("add") /\ lastOp'.error = "")
        => /\ lastOp'.ret # Null
           /\ lastOp'.ret[1] \in contacts' \ contacts
           /\ \A c \in contacts : c.id # lastOp'.ret[1].id
           /\ lastOp'.ret[1].priority = lastOp'.input.priority
           /\ lastOp'.ret[1].isActive ]_vars

(***************************************************************************)
(* The offline queue of the client: queueOfflineSos, markAsSynced,         *)
(* getPendingRequests, syncPendingRequests.  The queue lives in            *)
(* localStorage as JSON text; every function but syncPendingRequests is    *)
(* synchronous, and a pass gives way at each await of syncFn.              *)
(***************************************************************************)
\* JSON.stringify(queue): an array of objects, written here as the tuple of
\* the values of queueId, latitude, longitude, timestamp, synced and eventId
\* (Null for a request without the eventId key)
JSONStringify(queue) ==
  [k \in DOMAIN queue |->
     << queue[k].queueId, queue[k].latitude, queue[k].longitude,
        queue[k].timestamp, queue[k].synced, queue[k].eventId >>]

\* JSON.parse(stored)
JSONParse(text) ==
  [k \in DOMAIN text |->
     [queueId |-> text[k][1], latitude |-> text[k][2], longitude |-> text[k][3],
      timestamp |-> text[k][4], synced |-> text[k][5], eventId |-> text[k][6]]]

getOfflineQueue ==
  IF localStorage = Null THEN << >> ELSE JSONParse(localStorage[1])

\* the item after saveOfflineQueue(queue)
saveOfflineQueue(queue) == Some(JSONStringify(queue))

markAsSynced_keepsEventId(queueId, eventId) ==
  LET queue == getOfflineQueue
      hits == {k \in DOMAIN queue : queue[k].queueId = queueId}
  IN IF hits = {} THEN localStorage
     ELSE LET k == CHOOSE h \in hits : \A o \in hits : h <= o
          IN saveOfflineQueue([queue EXCEPT ![k].synced = TRUE])

\* the item after markAsSynced(queueId, eventId)
markAsSynced(queueId, eventId) ==
  LET queue == getOfflineQueue
      hits == {k \in DOMAIN queue : queue[k].queueId = queueId}
  IN IF hits = {} THEN localStorage
     ELSE LET k == CHOOSE h \in hits : \A o \in hits : h <= o
          IN saveOfflineQueue([queue EXCEPT ![k].synced = TRUE,
                                            ![k].eventId = Some(eventId)])

getPendingRequests == SelectSeq(getOfflineQueue, LAMBDA r : ~r.synced)

\* queueOfflineSos: nanoid() gives the id no request of the queue has (the
\* queue never shrinks)
queueOfflineSos(latitude, longitude) ==
  LET queue == getOfflineQueue
      request == [queueId |-> Len(queue) + 1, latitude |-> latitude,
                  longitude |-> longitude, timestamp |-> now,
                  synced |-> FALSE, eventId |-> Null]
  IN
  /\ Len(queue) < MaxRequests
  /\ localStorage' = saveOfflineQueue(Append(queue, request))
  /\ ReturnedOf("queueOfflineSos", "",
                [latitude |-> latitude, longitude |-> longitude], Some(request))
  /\ UNCHANGED << sync, syncCalls, reg, dbAvailable, now, devices, sosRateLimit,
                  sosEvents, locationHistory, ul, notifyVars, storeVars >>

\* the call syncFn(request) pass p makes in its run
NewCall(p, run, request) ==
  [pass |-> p, run |-> run, request |-> request, outcome |-> "pending",
   eventId |-> Null]

\* syncPendingRequests, lines 110-121: with request st.i settled, the loop
\* calls syncFn for the next request of the snapshot or the pass returns
syncPendingRequests_loop(p, st, calls) ==
  IF st.i < Len(st.pending)
  THEN /\ syncCalls' = Append(calls, NewCall(p, st.runs, st.pending[st.i + 1]))
       /\ sync' = [sync EXCEPT ![p] = [st EXCEPT !.pc = "await", !.i = st.i + 1,
                                                 !.call = Len(calls) + 1]]
       /\ UNCHANGED lastOp
  ELSE /\ syncCalls' = calls
       /\ sync' = [sync EXCEPT ![p] =
            [st EXCEPT !.pc = "idle",
                       !.ret = Some([synced |-> st.synced, failed |-> st.failed])]]
       /\ ReturnedOf("syncPendingRequests", "", [pass |-> p],
                     Some([synced |-> st.synced, failed |-> st.failed]))

\* syncPendingRequests, lines 106-112: snapshot the pending requests and
\* call syncFn for the first
syncPendingRequests_start(p) ==
  /\ sync[p].pc = "idle"
  /\ sync[1].runs + sync[2].runs < MaxPasses
  /\ syncPendingRequests_loop(p, [IdleSync EXCEPT !.pending = getPendingRequests,
                                                  !.runs = sync[p].runs + 1],
                              syncCalls)
  /\ UNCHANGED << localStorage, reg, dbAvailable, now, devices, sosRateLimit,
                  sosEvents, locationHistory, ul, notifyVars, storeVars >>

\* syncFn resolves with the eventId the server gave this submission:
\* markAsSynced, synced++
syncFn_resolves(p) ==
  /\ sync[p].pc = "await"
  /\ LET k == sync[p].call
         request == sync[p].pending[sync[p].i]
     IN /\ localStorage' = markAsSynced(request.queueId, k)
        /\ syncPendingRequests_loop(p, [sync[p] EXCEPT !.synced = @ + 1],
             [syncCalls EXCEPT ![k].outcome = "ok", ![k].eventId = Some(k)])
  /\ UNCHANGED << reg, dbAvailable, now, devices, sosRateLimit,
                  sosEvents, locationHistory, ul, notifyVars, storeVars >>

\* syncFn throws: failed++
syncFn_rejects(p) ==
  /\ sync[p].pc = "await"
  /\ syncPendingRequests_loop(p, [sync[p] EXCEPT !.failed = @ + 1],
        [syncCalls EXCEPT ![sync[p].call].outcome = "threw"])
  /\ UNCHANGED << localStorage, reg, dbAvailable, now, devices, sosRateLimit,
                  sosEvents, locationHistory, ul, notifyVars, storeVars >>

SyncInit == SosInit /\ dbAvailable

\* one pass at a time, requests queued at any moment
SyncNext ==
  \/ Tick
  \/ queueOfflineSos(1297160000, 775946000)
  \/ syncPendingRequests_start(1)
  \/ syncFn_resolves(1)
  \/ syncFn_rejects(1)

SpecSync == SyncInit /\ [][SyncNext]_vars

\* two passes that may overlap
OverlapNext ==
  \/ queueOfflineSos(1297160000, 775946000)
  \/ \E p \in PassIds : syncPendingRequests_start(p)
  \/ \E p \in PassIds : syncFn_resolves(p)
  \/ \E p \in PassIds : syncFn_rejects(p)

SpecOverlap == SyncInit /\ [][OverlapNext]_vars

\* the calls of syncFn pass p made in its run, in order
RunCalls(calls, p, run) ==
  SelectSeq(calls, LAMBDA c : c.pass = p /\ c.run = run)

\* the request of the queue with the given queueId
RequestOf(queue, queueId) ==
  queue[CHOOSE k \in DOMAIN queue : queue[k].queueId = queueId]

\* C25: one syncPendingRequests pass calls syncFn exactly once for each
\* request that was unsynced at the start of the pass, in queue order; a
\* request whose call succeeds becomes synced with the returned eventId, a
\* request whose call throws stays unsynced (the next pass has it in its
\* snapshot again) and does not stop the remaining requests, and the
\* returned synced + failed is the number of requests pending at the start.
C25_SinglePass ==
  [][ LET st == sync[1]
          nx == sync'[1]
          queue == getOfflineQueue
          stored == IF localStorage' = Null THEN << >>
                    ELSE JSONParse(localStorage'[1])
          mine == RunCalls(syncCalls', 1, nx.runs)
      IN
      /\ nx.runs # st.runs
            => /\ nx.runs = st.runs + 1
               /\ nx.pending = SelectSeq(queue, LAMBDA r : ~r.synced)
               /\ nx.synced = 0 /\ nx.failed = 0
      /\ nx.runs > 0
            => /\ Len(mine) = nx.i
               /\ nx.i <= Len(nx.pending)
               /\ \A k \in 1 .. nx.i : mine[k].request = nx.pending[k]
               /\ \A k \in 1 .. nx.i :
                     mine[k].outcome = "pending" <=> (k = nx.i /\ nx.pc = "await")
               /\ nx.synced = Cardinality({k \in 1 .. nx.i : mine[k].outcome = "ok"})
               /\ nx.failed = Cardinality({k \in 1 .. nx.i : mine[k].outcome = "threw"})
      /\ (st.pc = "await" /\ nx # st)
            => LET q == st.pending[st.i].queueId
                   c == syncCalls'[st.call]
               IN /\ c.outcome \in {"ok", "threw"}
                  /\ c.outcome = "ok"
                        => /\ c.eventId # Null
                           /\ RequestOf(stored, q).synced
                           /\ RequestOf(stored, q).eventId = c.eventId
                  /\ c.outcome = "threw"
                        => /\ ~RequestOf(stored, q).synced
                           /\ stored = queue
                  /\ st.i < Len(st.pending)
                        => /\ nx.pc = "await"
                           /\ nx.i = st.i + 1
      /\ (nx.pc = "idle" /\ nx # st)
            => /\ Returns("syncPendingRequests")
               /\ lastOp'.ret = Some([synced |-> nx.synced, failed |-> nx.failed])
               /\ nx.i = Len(nx.pending)
               /\ nx.synced + nx.failed = Len(nx.pending) ]_vars

\* a pass over two pending requests has returned {synced: 1, failed: 1}:
\* the call for the first threw and the first is still unsynced, the call
\* for the second succeeded and the second carries its eventId
C25_Witness ==
  /\ lastOp.op = "syncPendingRequests"
  /\ lastOp.ret = Some([synced |-> 1, failed |-> 1])
  /\ Len(sync[1].pending) = 2
  /\ Len(getOfflineQueue) = 2
  /\ ~getOfflineQueue[1].synced
  /\ getOfflineQueue[2].synced
  /\ \E k \in DOMAIN syncCalls :
        /\ syncCalls[k].outcome = "ok"
        /\ syncCalls[k].request.queueId = getOfflineQueue[2].queueId
        /\ getOfflineQueue[2].eventId = syncCalls[k].eventId
  /\ \E k \in DOMAIN syncCalls :
        /\ syncCalls[k].outcome = "threw"
        /\ syncCalls[k].request.queueId = getOfflineQueue[1].queueId

\* C28 as stated: for any interleaving of two overlapping
\* syncPendingRequests passes every queued request is passed to syncFn at
\* most once until a call for it fails, so no offline SOS is submitted to the
\* server twice, and a request queued during a pass is neither lost nor
\* overwritten.
C28_Original ==
  [][ LET queue == getOfflineQueue
          stored == IF localStorage' = Null THEN << >>
                    ELSE JSONParse(localStorage'[1])
      IN
      /\ Len(syncCalls') > Len(syncCalls)
            => \A k \in DOMAIN syncCalls :
                  syncCalls'[k].request.queueId
                      = syncCalls'[Len(syncCalls')].request.queueId
                    => syncCalls'[k].outcome = "threw"
      /\ \A k, l \in DOMAIN syncCalls' :
            (/\ syncCalls'[k].request.queueId = syncCalls'[l].request.queueId
             /\ syncCalls'[k].outcome = "ok"
             /\ syncCalls'[l].outcome = "ok") => k = l
      /\ \A k \in DOMAIN queue :
            /\ k \in DOMAIN stored
            /\ stored[k].queueId = queue[k].queueId
            /\ stored[k].latitude = queue[k].latitude
            /\ stored[k].longitude = queue[k].longitude
            /\ stored[k].timestamp = queue[k].timestamp
            /\ queue[k].synced => stored[k].synced ]_vars

(***************************************************************************)
(* device.register, one action per await: the lookup, the insert of        *)
(* db.createDevice, and the lookup createDevice ends with.                 *)
(***************************************************************************)
\* the call has ended: it returned ret or failed with error
RegDone(c, error, ret) ==
  reg' = [reg EXCEPT ![c].pc = "done", ![c].error = error, ![c].ret = ret]

\* lines 33-36: look the device up and return it if it is there
register_read(c, deviceId, name, phone, email) ==
  /\ reg[c].pc \in {"idle", "done"}
  /\ LET existing == getDeviceByDeviceId(deviceId)
         call == [IdleReg EXCEPT !.deviceId = deviceId, !.name = name,
                                 !.phone = phone, !.email = email,
                                 !.existing = devices[deviceId]]
     IN reg' = [reg EXCEPT ![c] =
                  IF existing # NoRow
                  THEN [call EXCEPT !.pc = "done", !.ret = existing]
                  ELSE [call EXCEPT !.pc = "insert"]]
  /\ UNCHANGED << clientVars, dbAvailable, now, devices, sosRateLimit, sosEvents,
                  locationHistory, ul, lastOp, notifyVars, storeVars >>

\* db.createDevice, lines 102-104: undefined without a store; the insert is
\* rejected when the deviceId is taken (devices_deviceId_unique) and the
\* procedure fails
register_insert(c) ==
  /\ reg[c].pc = "insert"
  /\ IF ~dbAvailable \/ devices[reg[c].deviceId] # NoRow
     THEN /\ RegDone(c, "INTERNAL_SERVER_ERROR", Null)
          /\ UNCHANGED devices
     ELSE /\ devices' = createDevice(NewDevice(reg[c].deviceId, reg[c].name,
                                               reg[c].phone, reg[c].email))
          /\ reg' = [reg EXCEPT ![c].pc = "reread"]
  /\ UNCHANGED << clientVars, dbAvailable, now, sosRateLimit, sosEvents,
                  locationHistory, ul, lastOp, notifyVars, storeVars >>

\* db.createDevice, line 105, and lines 44-45: read the row back, return it
register_return(c) ==
  /\ reg[c].pc = "reread"
  /\ LET device == getDeviceByDeviceId(reg[c].deviceId)
     IN IF device = NoRow
        THEN RegDone(c, "INTERNAL_SERVER_ERROR", Null)
        ELSE RegDone(c, "", device)
  /\ UNCHANGED << clientVars, dbAvailable, now, devices, sosRateLimit, sosEvents,
                  locationHistory, ul, lastOp, notifyVars, storeVars >>

\* two callers registering at the same time
RaceNext ==
  \/ \E c \in PassIds, d \in DeviceIds, pr \in DeviceProfiles :
        register_read(c, d, pr[1], pr[2], pr[3])
  \/ \E c \in PassIds : register_insert(c)
  \/ \E c \in PassIds : register_return(c)

SpecRace == SosInit /\ [][RaceNext]_vars

\* C27 as stated: for any interleaving of two concurrent device.register
\* calls with the same, not yet registered deviceId, exactly one Device row
\* is created and both calls return that device; neither call fails.
C27_Original ==
  \A c \in PassIds :
    (/\ dbAvailable
     /\ reg[c].pc = "done"
     /\ reg[c].existing = NoRow)
      => /\ reg[c].error = ""
         /\ devices[reg[c].deviceId] # NoRow
         /\ reg[c].ret = devices[reg[c].deviceId]

=============================================================================
